---- MODULE Spec2Model ----
(***************************************************************************)
(* Model of the Analyst Engine of Stock-Analyst: AnalystEngine             *)
(* (src/src/analyst/analyst_engine.py) and the components it runs,         *)
(* QualityAnalyzer (quality.py), ValuationEngine (valuation.py),           *)
(* MarketAnalyzer (market.py) and RatingEngine (rating.py), the coverage   *)
(* utility (coverage.py), and ReportAssembler (reporting/assembler.py)     *)
(* with the lines of main (src/main.py) that build the report's results.   *)
(*                                                                         *)
(* Python floats are modelled as exact rationals [k, n, d] in lowest terms *)
(* with the three non-numbers the code distinguishes: None (a missing key  *)
(* or a None value), NaN and +infinity.  Square roots are exact for the    *)
(* square of a fraction and rounded down to SqrtDigits decimal places      *)
(* otherwise, and the compounding of the cash-flow projection is rounded   *)
(* to FloatDigits decimal places at each step.                             *)
(*                                                                         *)
(* A component that raises leaves Raised in place of its result; an        *)
(* exception ends AnalystEngine.analyze.  ReportAssembler.build leaves     *)
(* ZeroDivisionError in place of the report.                               *)
(***************************************************************************)
EXTENDS Integers, Sequences, FiniteSets, TLC

VARIABLES
    done,        \* the components that have returned
    df,          \* the feature table: column name -> series, or NoColumn
    quality,     \* QualityAnalyzer.analyze's result (RatingEngine's `quality`)
    valuation,   \* ValuationEngine.analyze's result (`valuation`)
    market,      \* MarketAnalyzer.analyze's result (`market`)
    rating,      \* RatingEngine.analyze's locals and returned dict
    call,        \* the arguments of a call: of compute_with_fallback, of
                 \* aggregate_metric_results, or market_price and price_df
                 \* of AnalystEngine.analyze
    metric,      \* what compute_with_fallback or aggregate_metric_results
                 \* returned
    result,      \* what AnalystEngine.analyze returned
    report       \* the results dict of main: what ReportAssembler.build
                 \* returned, with main's current_price and upside

vars ==
    <<done, df, quality, valuation, market, rating, call, metric, result, report>>

----------------------------------------------------------------------------
(* Numbers *)

RECURSIVE GCD(_, _)
GCD(a, b) == IF b = 0 THEN a ELSE GCD(b, a % b)

Abs(i) == IF i < 0 THEN -i ELSE i

\* The rational n/d (d # 0) in lowest terms with a positive denominator.
R(n, d) ==
    LET s == IF d < 0 THEN -1 ELSE 1
        g == GCD(Abs(n), Abs(d))
    IN  [k |-> "num", n |-> (s * n) \div g, d |-> (s * d) \div g]

Int2R(i) == R(i, 1)
None == [k |-> "none", n |-> 0, d |-> 1]
NaN == [k |-> "nan", n |-> 0, d |-> 1]
Inf == [k |-> "inf", n |-> 1, d |-> 1]

IsNum(x) == x.k = "num"

\* the numerator a.n is multiplied with adding or comparing a to b, the common
\* factor of the denominators left out
Cross(a, b) == a.n * (b.d \div GCD(a.d, b.d))

\* IEEE arithmetic as far as the code reaches it: a NaN operand gives NaN.
Add(a, b) ==
    IF IsNum(a) /\ IsNum(b)
    THEN R(Cross(a, b) + Cross(b, a), (a.d \div GCD(a.d, b.d)) * b.d)
    ELSE NaN
Sub(a, b) ==
    IF IsNum(a) /\ IsNum(b)
    THEN R(Cross(a, b) - Cross(b, a), (a.d \div GCD(a.d, b.d)) * b.d)
    ELSE NaN
Mul(a, b) ==
    IF IsNum(a) /\ IsNum(b)
    THEN LET g == GCD(Abs(a.n), b.d)
             h == GCD(Abs(b.n), a.d)
         IN  R((a.n \div g) * (b.n \div h), (a.d \div h) * (b.d \div g))
    ELSE NaN
Div(a, b) ==
    IF IsNum(a) /\ IsNum(b) /\ b.n # 0
    THEN Mul(a, R(b.d, b.n))
    ELSE NaN

\* Comparisons with a NaN operand are False, as in Python.
Lt(a, b) == IsNum(a) /\ IsNum(b) /\ Cross(a, b) < Cross(b, a)
Le(a, b) == IsNum(a) /\ IsNum(b) /\ Cross(a, b) <= Cross(b, a)
Gt(a, b) == Lt(b, a)
Ge(a, b) == Le(b, a)

RMin(a, b) == IF Lt(b, a) THEN b ELSE a
RMax(a, b) == IF Gt(b, a) THEN b ELSE a

RECURSIVE Sum(_)
Sum(s) ==
    IF s = <<>> THEN Int2R(0)
    ELSE IF Len(s) = 1 THEN s[1]
    ELSE LET half == Len(s) \div 2
         IN  Add(Sum(SubSeq(s, 1, half)), Sum(SubSeq(s, half + 1, Len(s))))

\* np.mean of a non-empty list
Mean(s) == Div(Sum(s), Int2R(Len(s)))

RECURSIVE Pow10(_)
Pow10(e) == IF e = 0 THEN 1 ELSE 10 * Pow10(e - 1)

\* Python's round(x, digits): the nearest multiple of 10^-digits, a tie going
\* to the even one; NaN stays NaN. The whole part is set aside before the rest
\* is scaled.
round(x, digits) ==
    IF ~IsNum(x) THEN x
    ELSE LET p == Pow10(digits)
             whole == x.n \div x.d
             num == (x.n - whole * x.d) * p
             f == num \div x.d
             rem == num - f * x.d
             up == \/ 2 * rem > x.d
                   \/ (2 * rem = x.d /\ (whole * p + f) % 2 = 1)
         IN  R(whole * p + f + (IF up THEN 1 ELSE 0), p)

----------------------------------------------------------------------------
(* RatingEngine, src/src/analyst/rating.py *)

\* clamp without its upper bound
clamp_no_upper(x) == RMax(Int2R(0), x)

clamp(x) == RMax(Int2R(0), RMin(Int2R(100), x))

_is_valid(x) == x.k = "num"

\* value_score with the ratio upside down (price / fair)
value_score_inverted(val, mkt) ==
    LET fair == val.fair_value
        price == mkt.market_price
    IN  IF ~_is_valid(fair) \/ ~_is_valid(price) \/ Le(price, Int2R(0))
        THEN Int2R(50)
        ELSE LET upside == Sub(Div(price, fair), Int2R(1))
                 score == Add(Int2R(50), Mul(upside, Int2R(100)))
             IN  IF IsNum(score) THEN clamp(score) ELSE Int2R(50)

value_score(val, mkt) ==
    LET fair == val.fair_value
        price == mkt.market_price
    IN  IF ~_is_valid(fair) \/ ~_is_valid(price) \/ Le(price, Int2R(0))
        THEN Int2R(50)
        ELSE LET upside == Sub(Div(fair, price), Int2R(1))
                 score == Add(Int2R(50), Mul(upside, Int2R(100)))
             IN  clamp(score)

quality_score(qual) ==
    LET score == qual.quality_score
    IN  IF ~_is_valid(score) THEN Int2R(50) ELSE clamp(score)

market_score(mkt) ==
    LET volatility == mkt.volatility
        drawdown == mkt.max_drawdown
        s0 == Int2R(100)
        s1 == IF _is_valid(volatility) THEN Sub(s0, Mul(volatility, Int2R(100))) ELSE s0
        s2 == IF _is_valid(drawdown) THEN Add(s1, Mul(drawdown, Int2R(50))) ELSE s1
    IN  clamp(s2)

\* risk_score penalising price >= fair value instead of price > fair value
risk_score_ge(mkt, val) ==
    LET volatility == mkt.volatility
        fair == val.fair_value
        price == mkt.market_price
        s0 == Int2R(100)
        s1 == IF _is_valid(volatility) THEN Sub(s0, Mul(volatility, Int2R(80))) ELSE s0
        s2 == IF _is_valid(fair) /\ _is_valid(price) /\ Ge(price, fair)
              THEN Sub(s1, Int2R(20)) ELSE s1
    IN  clamp(s2)

risk_score(mkt, val) ==
    LET volatility == mkt.volatility
        fair == val.fair_value
        price == mkt.market_price
        s0 == Int2R(100)
        s1 == IF _is_valid(volatility) THEN Sub(s0, Mul(volatility, Int2R(80))) ELSE s0
        s2 == IF _is_valid(fair) /\ _is_valid(price) /\ Gt(price, fair)
              THEN Sub(s1, Int2R(20)) ELSE s1
    IN  clamp(s2)

\* final_rating with BUY only strictly above 75
final_rating_strict(total_score) ==
    IF Gt(total_score, Int2R(75)) THEN "BUY"
    ELSE IF Ge(total_score, Int2R(55)) THEN "HOLD"
    ELSE "SELL"

final_rating(total_score) ==
    IF Ge(total_score, Int2R(75)) THEN "BUY"
    ELSE IF Ge(total_score, Int2R(55)) THEN "HOLD"
    ELSE "SELL"

\* float(d.get(key, 0.0) or 0.0): None and 0 give 0.0, NaN is truthy and stays.
conf_or_zero(x) == IF x = None THEN Int2R(0) ELSE x

\* np.average with the weights dropped
average_unweighted(scores, weights) == Mean(scores)

\* np.average(scores, weights=weights)
average(scores, weights) ==
    Div(Sum([i \in 1..Len(scores) |-> Mul(scores[i], weights[i])]), Sum(weights))

\* m_conf: 1.0 if any of the market inputs is valid
market_confidence(mkt) ==
    IF _is_valid(mkt.volatility) \/ _is_valid(mkt.max_drawdown)
    THEN Int2R(1) ELSE Int2R(0)

\* r_conf as 1.0 when any one of volatility, price, fair value is valid
risk_confidence_any(mkt, val) ==
    IF _is_valid(mkt.volatility) \/ _is_valid(mkt.market_price) \/ _is_valid(val.fair_value)
    THEN Int2R(1) ELSE Int2R(0)

\* r_conf: 1.0 if volatility is valid, or price and fair value both are
risk_confidence(mkt, val) ==
    LET vol == mkt.volatility
        price == mkt.market_price
        fair == val.fair_value
    IN  IF _is_valid(vol) \/ (_is_valid(price) /\ _is_valid(fair))
        THEN Int2R(1) ELSE Int2R(0)

RatingEngine_analyze(qual, val, mkt) ==
    LET v_score == value_score(val, mkt)
        q_score == quality_score(qual)
        m_score == market_score(mkt)
        r_score == risk_score(mkt, val)
        v_conf == conf_or_zero(val.valuation_confidence)
        q_conf == conf_or_zero(qual.quality_confidence)
        m_conf == market_confidence(mkt)
        r_conf == risk_confidence(mkt, val)
        scores == <<v_score, q_score, m_score, r_score>>
        weights == <<v_conf, q_conf, m_conf, r_conf>>
        weighted == Gt(Sum(weights), Int2R(0))
        total == IF weighted THEN average(scores, weights) ELSE Mean(scores)
    IN  [scores |-> scores,
         weights |-> weights,
         weighted |-> weighted,
         total |-> total,
         value_score |-> round(v_score, 1),
         quality_score |-> round(q_score, 1),
         market_score |-> round(m_score, 1),
         risk_score |-> round(r_score, 1),
         total_score |-> round(total, 1),
         score_confidence |-> round(Mean(weights), 2),
         rating |-> final_rating(total)]

----------------------------------------------------------------------------
(* pandas Series, as the analyzers use them *)

\* no table passed, no result yet
NoTable == [absent |-> TRUE]
NoResult == [absent |-> TRUE]

\* df.get(name): a column of cells (numbers and NaN), or None for no column
Column(cells) == [present |-> TRUE, cells |-> cells]
NoColumn == [present |-> FALSE, cells |-> <<>>]

dropna(cells) == SelectSeq(cells, IsNum)

tail(cells, n) ==
    IF Len(cells) <= n THEN cells ELSE SubSeq(cells, Len(cells) - n + 1, Len(cells))

\* cells.iloc[-i]
iloc_back(cells, i) == cells[Len(cells) + 1 - i]

\* the decimal places square roots are taken to
SqrtDigits == 2
SqrtScale == Pow10(SqrtDigits)

RECURSIVE ISqrtSearch(_, _, _)
ISqrtSearch(x, lo, hi) ==
    IF lo >= hi THEN lo
    ELSE LET mid == (lo + hi + 1) \div 2
         IN  IF mid * mid <= x THEN ISqrtSearch(x, mid, hi) ELSE ISqrtSearch(x, lo, mid - 1)

\* the whole part of the square root of i >= 0
ISqrt(i) == ISqrtSearch(i, 0, IF i < 46340 THEN i ELSE 46340)

\* the square root of x >= 0: exact for the square of a fraction, else rounded
\* down to a multiple of 1/SqrtScale
Sqrt(x) ==
    LET once == x.n * SqrtScale
        scaled == (once \div x.d) * SqrtScale + ((once % x.d) * SqrtScale) \div x.d
    IN  IF ISqrt(x.n) * ISqrt(x.n) = x.n /\ ISqrt(x.d) * ISqrt(x.d) = x.d
        THEN R(ISqrt(x.n), ISqrt(x.d))
        ELSE R(ISqrt(scaled), SqrtScale)

\* x ** (1 / periods), for the one or two periods the model uses
Root(x, periods) == IF periods = 2 THEN Sqrt(x) ELSE x

\* Series.std(): the sample standard deviation (ddof = 1) of two or more numbers
std(cells) ==
    LET m == Mean(cells)
        sq == [i \in 1..Len(cells) |-> Mul(Sub(cells[i], m), Sub(cells[i], m))]
    IN  Sqrt(Div(Sum(sq), Int2R(Len(cells) - 1)))

RAbs(x) == IF Lt(x, Int2R(0)) THEN Sub(Int2R(0), x) ELSE x

----------------------------------------------------------------------------
(* The coverage utility, src/src/analyst/coverage.py *)

MetricResult(value, years_used, years_required, confidence) ==
    [value |-> value, years_used |-> years_used,
     years_required |-> years_required, confidence |-> confidence]

\* compute_with_fallback with years_used not capped at preferred_years
compute_with_fallback_uncapped(series, preferred_years, minimum_years) ==
    IF ~series.present THEN MetricResult(None, 0, preferred_years, Int2R(0))
    ELSE LET clean == dropna(series.cells)
         IN  IF Len(clean) < minimum_years
             THEN MetricResult(None, Len(clean), preferred_years, Int2R(0))
             ELSE MetricResult(Mean(tail(clean, preferred_years)), Len(clean),
                               preferred_years, R(Len(clean), preferred_years))

\* compute_with_fallback with the default reducer, np.mean
compute_with_fallback(series, preferred_years, minimum_years) ==
    IF ~series.present THEN MetricResult(None, 0, preferred_years, Int2R(0))
    ELSE LET clean == dropna(series.cells)
         IN  IF Len(clean) < minimum_years
             THEN MetricResult(None, Len(clean), preferred_years, Int2R(0))
             ELSE LET used == IF Len(clean) < preferred_years
                              THEN Len(clean) ELSE preferred_years
                      subset == tail(clean, used)
                  IN  MetricResult(Mean(subset), used, preferred_years,
                                   R(used, preferred_years))

\* one submitted entry: None, a MetricResult, or a dict (a function from the
\* keys it holds to their values)
NoneEntry == [kind |-> "None"]
MetricResultEntry(r) == [kind |-> "MetricResult", r |-> r]
DictEntry(items) == [kind |-> "dict", items |-> items]

\* dict.get(key, default)
get(items, key, default) == IF key \in DOMAIN items THEN items[key] ELSE default

\* the (value, confidence) pairs aggregate_metric_results extracts, in order
RECURSIVE extract(_)
extract(results) ==
    IF results = <<>> THEN <<>>
    ELSE LET r == Head(results)
             rest == extract(Tail(results))
         IN  CASE r.kind = "None" -> rest
               [] r.kind = "MetricResult" ->
                      IF r.r.value # None
                      THEN <<<<r.r.value, r.r.confidence>>>> \o rest
                      ELSE rest
               [] r.kind = "dict" ->
                      LET value == get(r.items, "value", None)
                          confidence == get(r.items, "confidence", Int2R(0))
                      IN  IF value # None
                          THEN <<<<value, confidence>>>> \o rest
                          ELSE rest

\* aggregate_metric_results with the min_valid floor left out
aggregate_metric_results_no_floor(results, min_valid) ==
    LET extracted == extract(results)
        values == [i \in 1..Len(extracted) |-> extracted[i][1]]
        confidences == [i \in 1..Len(extracted) |-> extracted[i][2]]
    IN  [value |-> Mean(values), used |-> Len(extracted),
         total |-> Len(results), confidence |-> Mean(confidences)]

aggregate_metric_results(results, min_valid) ==
    LET extracted == extract(results)
        values == [i \in 1..Len(extracted) |-> extracted[i][1]]
        confidences == [i \in 1..Len(extracted) |-> extracted[i][2]]
    IN  IF Len(extracted) < min_valid
        THEN [value |-> None, used |-> Len(extracted),
              total |-> Len(results), confidence |-> Int2R(0)]
        ELSE [value |-> Mean(values), used |-> Len(extracted),
              total |-> Len(results), confidence |-> Mean(confidences)]

----------------------------------------------------------------------------
(* QualityAnalyzer, src/src/analyst/quality.py *)

_is_finite(x) == x.k = "num"

_mean_ignore_nan(values) ==
    LET clean == SelectSeq(values, _is_finite)
    IN  IF clean # <<>> THEN Mean(clean) ELSE NaN

_score_range(value, low, high) ==
    IF ~_is_finite(value) THEN NaN
    ELSE LET score == Div(Mul(Int2R(100), Sub(value, low)), Sub(high, low))
         IN  RMax(Int2R(0), RMin(Int2R(100), score))

_safe_cagr_endpoints(cells, periods) ==
    LET clean == dropna(cells)
    IN  IF Len(clean) < periods + 1 THEN NaN
        ELSE LET start == iloc_back(clean, periods + 1)
                 end == iloc_back(clean, 1)
             IN  IF Le(start, Int2R(0)) \/ Le(end, Int2R(0)) THEN NaN
                 ELSE Sub(Root(Div(end, start), periods), Int2R(1))

_confidence(years_used, years_required) ==
    IF years_required <= 0 THEN Int2R(0)
    ELSE RMin(Int2R(1), R(years_used, years_required))

IMax(a, b) == IF b > a THEN b ELSE a

\* one "if column is not None: clean = dropna(); if len(clean) >= 3:" block of
\* _profitability: the sub-score it appends (<<>> if none) and its years_used
MarginBlock(col, low, high, years_required) ==
    LET clean == dropna(col.cells)
    IN  IF col.present /\ Len(clean) >= 3
        THEN [scores |-> <<_score_range(Mean(tail(clean, years_required)), low, high)>>,
              years |-> Len(tail(clean, years_required)),
              avg |-> Mean(tail(clean, years_required))]
        ELSE [scores |-> <<>>, years |-> 0, avg |-> None]

_profitability(t) ==
    LET years_required == 5
        op == MarginBlock(t.operating_margin, R(5, 100), R(30, 100), years_required)
        net == MarginBlock(t.net_margin, R(3, 100), R(20, 100), years_required)
        scores == op.scores \o net.scores
        years_used == IMax(IMax(0, op.years), net.years)
    \* metrics: None stands for a key that was never set
    IN  [score |-> _mean_ignore_nan(scores),
         confidence |-> _confidence(years_used, years_required),
         scores |-> scores,
         operating_margin_avg |-> op.avg,
         net_margin_avg |-> net.avg]

\* a column with at least 3 non-missing values
HasThree(col) == col.present /\ Len(dropna(col.cells)) >= 3

\* the penalty test with revenue growth of 5% counted as above 5%
growth_penalty_from_5(growth_base, revenue_growth, fcf_growth) ==
    /\ growth_base = "fcf"
    /\ revenue_growth # None
    /\ Ge(revenue_growth, R(5, 100))
    /\ Lt(fcf_growth, R(2, 100))

\* the test of the penalty: revenue growth without conversion into free cash
\* flow; revenue_growth is None where the key was never set
growth_penalty(growth_base, revenue_growth, fcf_growth) ==
    /\ growth_base = "fcf"
    /\ revenue_growth # None
    /\ Gt(revenue_growth, R(5, 100))
    /\ Lt(fcf_growth, R(2, 100))

_growth_quality(t) ==
    LET years_required == 5
        rev == t.total_revenue
        ni == t.net_income
        fcf == t.free_cash_flow
        rev_used == HasThree(rev)
        growth_base == IF HasThree(fcf) THEN "fcf"
                       ELSE IF HasThree(ni) THEN "net_income"
                       ELSE "None"
        \* metrics: None stands for a key that was never set
        revenue_growth == IF rev_used THEN _safe_cagr_endpoints(dropna(rev.cells), 2) ELSE None
        fcf_growth == IF growth_base = "fcf"
                      THEN _safe_cagr_endpoints(dropna(fcf.cells), 2) ELSE None
        net_income_growth == IF growth_base = "net_income"
                             THEN _safe_cagr_endpoints(dropna(ni.cells), 2) ELSE None
        s_rev == IF rev_used
                 THEN <<_score_range(revenue_growth, Int2R(0), R(15, 100))>> ELSE <<>>
        s_base == IF growth_base = "fcf"
                  THEN <<_score_range(fcf_growth, Int2R(0), R(15, 100))>>
                  ELSE IF growth_base = "net_income"
                  THEN <<_score_range(net_income_growth, Int2R(0), R(15, 100))>>
                  ELSE <<>>
        y_rev == IF rev_used THEN Len(tail(dropna(rev.cells), years_required)) ELSE 0
        y_base == IF growth_base = "fcf"
                  THEN Len(tail(dropna(fcf.cells), years_required))
                  ELSE IF growth_base = "net_income"
                  THEN Len(tail(dropna(ni.cells), years_required))
                  ELSE 0
        penalty == growth_penalty(growth_base, revenue_growth, fcf_growth)
        scores == s_rev \o s_base \o (IF penalty THEN <<Int2R(20)>> ELSE <<>>)
        years_used == IMax(IMax(0, y_rev), y_base)
    IN  [score |-> _mean_ignore_nan(scores),
         confidence |-> _confidence(years_used, years_required),
         revenue_growth |-> revenue_growth,
         fcf_growth |-> fcf_growth,
         net_income_growth |-> net_income_growth,
         growth_base |-> growth_base,
         penalty |-> penalty,
         scores |-> scores]

\* a column with at least one non-missing value
HasLatest(col) == col.present /\ dropna(col.cells) # <<>>

\* the sub-score of the latest non-missing value of a column, <<>> if none
LatestBlock(col, negate, low, high) ==
    IF HasLatest(col)
    THEN LET v == iloc_back(dropna(col.cells), 1)
         IN  <<_score_range(IF negate THEN Sub(Int2R(0), v) ELSE v, low, high)>>
    ELSE <<>>

\* _financial_strength scoring debt_to_assets whether or not debt_to_equity
\* was scored
_financial_strength_both(t) ==
    LET years_required == 3
        s_dte == LatestBlock(t.debt_to_equity, TRUE, R(-5, 2), Int2R(0))
        s_dta == LatestBlock(t.debt_to_assets, TRUE, Int2R(-1), Int2R(0))
        s_cur == LatestBlock(t.current_ratio, FALSE, Int2R(1), Int2R(3))
        s_quick == LatestBlock(t.quick_ratio, FALSE, R(7, 10), Int2R(2))
        scores == s_dte \o s_dta \o s_cur \o s_quick
        years_used == IF scores # <<>> THEN 1 ELSE 0
    IN  [score |-> _mean_ignore_nan(scores),
         confidence |-> _confidence(years_used, years_required),
         leverage |-> s_dte \o s_dta,
         scores |-> scores]

_financial_strength(t) ==
    LET years_required == 3
        dte_used == HasLatest(t.debt_to_equity)
        s_dte == LatestBlock(t.debt_to_equity, TRUE, R(-5, 2), Int2R(0))
        s_dta == IF ~dte_used
                 THEN LatestBlock(t.debt_to_assets, TRUE, Int2R(-1), Int2R(0))
                 ELSE <<>>
        s_cur == LatestBlock(t.current_ratio, FALSE, Int2R(1), Int2R(3))
        s_quick == LatestBlock(t.quick_ratio, FALSE, R(7, 10), Int2R(2))
        scores == s_dte \o s_dta \o s_cur \o s_quick
        years_used == IF scores # <<>> THEN 1 ELSE 0
    IN  [score |-> _mean_ignore_nan(scores),
         confidence |-> _confidence(years_used, years_required),
         leverage |-> s_dte \o s_dta,
         scores |-> scores]

EpsInv == 1000000

\* std / (abs(mean) + 1e-6).  1e-6 is below the model's resolution unless the
\* mean is 0, where the quotient is std * 10^6: 0, or far above the 1.0 at
\* which the score reaches 0.
CoefficientOfVariation(cells) ==
    LET m == RAbs(Mean(cells))
        sd == std(cells)
    IN  IF m = Int2R(0) THEN Mul(RMin(sd, Int2R(1)), Int2R(EpsInv)) ELSE Div(sd, m)

_stability(t) ==
    LET years_required == 5
        ni == t.net_income
        fcf == t.free_cash_flow
        op_margin == t.operating_margin
        win(col) == tail(dropna(col.cells), years_required)
        s_ni == IF HasThree(ni)
                THEN <<_score_range(Sub(Int2R(0), CoefficientOfVariation(win(ni))),
                                    Int2R(-1), Int2R(0))>>
                ELSE <<>>
        s_fcf == IF HasThree(fcf)
                 THEN <<_score_range(Sub(Int2R(0), CoefficientOfVariation(win(fcf))),
                                     Int2R(-1), Int2R(0))>>
                 ELSE <<>>
        s_op == IF HasThree(op_margin)
                THEN <<_score_range(Sub(Int2R(0), std(win(op_margin))),
                                    R(-15, 100), Int2R(0))>>
                ELSE <<>>
        y(col) == IF HasThree(col) THEN Len(win(col)) ELSE 0
        scores == s_ni \o s_fcf \o s_op
        years_used == IMax(IMax(IMax(0, y(ni)), y(fcf)), y(op_margin))
    IN  [score |-> _mean_ignore_nan(scores),
         confidence |-> _confidence(years_used, years_required)]

\* float(np.mean([c for c in confidences if c > 0])): NaN for an empty list
MeanOfPositive(confidences) ==
    LET pos == SelectSeq(confidences, LAMBDA c : Gt(c, Int2R(0)))
    IN  IF pos = <<>> THEN NaN ELSE Mean(pos)

\* the overall score with a floor of one dimension instead of two
overall_score_floor_one(valid_scores) ==
    IF Len(valid_scores) >= 1 THEN Mean(valid_scores) ELSE NaN

\* quality_score: the mean of the valid dimension scores if there are >= 2
overall_score(valid_scores) ==
    IF Len(valid_scores) >= 2 THEN Mean(valid_scores) ELSE NaN

\* quality_confidence: the mean of the positive confidences under the same floor
overall_confidence(valid_scores, confidences) ==
    IF Len(valid_scores) >= 2 THEN MeanOfPositive(confidences) ELSE Int2R(0)

QualityAnalyzer_result(p, g, f, s) ==
    LET scores == <<p.score, g.score, f.score, s.score>>
        confidences == <<p.confidence, g.confidence, f.confidence, s.confidence>>
        valid_scores == SelectSeq(scores, _is_finite)
    IN  [quality_score |-> overall_score(valid_scores),
         quality_confidence |-> overall_confidence(valid_scores, confidences),
         profitability_score |-> p.score,
         profitability_confidence |-> p.confidence,
         growth_quality_score |-> g.score,
         growth_confidence |-> g.confidence,
         financial_strength_score |-> f.score,
         financial_strength_confidence |-> f.confidence,
         stability_score |-> s.score,
         stability_confidence |-> s.confidence,
         profitability |-> p,
         growth |-> g,
         financial_strength |-> f]

QualityAnalyzer_analyze(t) ==
    QualityAnalyzer_result(_profitability(t), _growth_quality(t),
                           _financial_strength(t), _stability(t))

----------------------------------------------------------------------------
(* ValuationEngine, src/src/analyst/valuation.py *)

\* the decimal places the compounding of dcf_value is carried to
FloatDigits == 2

\* a product, quotient or power of the DCF projection, at that resolution:
\* round(x, FloatDigits), the whole part of x being set aside first
Float(x) ==
    IF ~IsNum(x) THEN x
    ELSE LET p == Pow10(FloatDigits)
             whole == x.n \div x.d
             num == (x.n - whole * x.d) * p
             f == num \div x.d
             rem == num - f * x.d
             up == \/ 2 * rem > x.d
                   \/ (2 * rem = x.d /\ (whole * p + f) % 2 = 1)
         IN  R(whole * p + f + (IF up THEN 1 ELSE 0), p)

\* col.iloc[-1] of a column without rows raises IndexError
IndexError(col) == col.present /\ col.cells = <<>>

_latest_value(series) ==
    IF ~series.present THEN NaN
    ELSE LET clean == dropna(series.cells)
         IN  IF clean = <<>> THEN NaN ELSE iloc_back(clean, 1)

_equity_value_from_enterprise(enterprise_value, t) ==
    IF ~_is_valid(enterprise_value) THEN NaN
    ELSE LET net_debt == _latest_value(t.net_debt)
         IN  IF _is_valid(net_debt) THEN Sub(enterprise_value, net_debt)
                                    ELSE enterprise_value

_to_per_share(total_value, t) ==
    LET shares == _latest_value(t.ordinary_shares_number)
    IN  IF ~_is_valid(total_value) \/ ~_is_valid(shares) \/ Le(shares, Int2R(0))
        THEN NaN
        ELSE Div(total_value, shares)

\* _safe_score with the confidence the values per valid value
_safe_score_inverted(values) ==
    LET valid == SelectSeq(values, _is_valid)
    IN  IF valid = <<>> THEN [value |-> NaN, confidence |-> Int2R(0)]
        ELSE [value |-> Mean(valid), confidence |-> R(Len(values), Len(valid))]

\* (value, confidence) of a list of model values
_safe_score(values) ==
    LET valid == SelectSeq(values, _is_valid)
    IN  IF valid = <<>> THEN [value |-> NaN, confidence |-> Int2R(0)]
        ELSE [value |-> Mean(valid), confidence |-> R(Len(valid), Len(values))]

normalized_fcf(t) ==
    LET fcf == t.free_cash_flow
    IN  IF ~fcf.present THEN NaN
        ELSE LET recent == tail(fcf.cells, 5)
             IN  IF dropna(recent) = <<>> THEN NaN ELSE Mean(dropna(recent))

\* np.clip of a number
clip(x, lo, hi) == RMax(lo, RMin(hi, x))

growth_rate(t) ==
    LET rev_g == t.revenue_cagr_3y
        fcf_g == t.fcf_cagr_3y
        g_vals == (IF rev_g.present /\ _is_valid(iloc_back(rev_g.cells, 1))
                   THEN <<iloc_back(rev_g.cells, 1)>> ELSE <<>>)
                  \o (IF fcf_g.present /\ _is_valid(iloc_back(fcf_g.cells, 1))
                      THEN <<iloc_back(fcf_g.cells, 1)>> ELSE <<>>)
    IN  IF g_vals = <<>> THEN NaN
        ELSE clip(Mean(g_vals), R(2, 100), R(10, 100))

discount_rate(t) ==
    LET dta == t.debt_to_assets
    IN  IF ~dta.present \/ ~_is_valid(iloc_back(dta.cells, 1)) THEN R(10, 100)
        ELSE clip(Add(R(8, 100), Mul(R(4, 100), iloc_back(dta.cells, 1))),
                  R(7, 100), R(12, 100))

\* x ** e for e >= 0
RECURSIVE Power(_, _)
Power(x, e) == IF e = 0 THEN Int2R(1) ELSE Float(Mul(Power(x, e - 1), x))

\* the free cash flow of year e of the projection
RECURSIVE Projected(_, _, _)
Projected(fcf0, g, e) ==
    IF e = 0 THEN fcf0
    ELSE Float(Mul(Projected(fcf0, g, e - 1), Add(Int2R(1), g)))

\* dcf_value without the test r <= g
dcf_value_unguarded(t, g0, r0, terminal_g) ==
    LET fcf0 == normalized_fcf(t)
        g == IF g0 = None THEN growth_rate(t) ELSE g0
        r == IF r0 = None THEN discount_rate(t) ELSE r0
    IN  IF ~_is_valid(fcf0) \/ ~_is_valid(g) THEN NaN
        ELSE LET discounted ==
                     [e \in 1..5 |-> Float(Div(Projected(fcf0, g, e),
                                                Power(Add(Int2R(1), r), e)))]
                 terminal == Float(Div(Float(Mul(Projected(fcf0, g, 5),
                                                 Add(Int2R(1), terminal_g))),
                                       Sub(r, terminal_g)))
             IN  Add(Sum(discounted),
                     Float(Div(terminal, Power(Add(Int2R(1), r), 5))))

\* g and r are None when the caller leaves them out
dcf_value(t, g0, r0, terminal_g) ==
    LET fcf0 == normalized_fcf(t)
        g == IF g0 = None THEN growth_rate(t) ELSE g0
        r == IF r0 = None THEN discount_rate(t) ELSE r0
    IN  IF ~_is_valid(fcf0) \/ ~_is_valid(g) \/ Le(r, g) THEN NaN
        ELSE LET discounted ==
                     [e \in 1..5 |-> Float(Div(Projected(fcf0, g, e),
                                                Power(Add(Int2R(1), r), e)))]
                 terminal == Float(Div(Float(Mul(Projected(fcf0, g, 5),
                                                 Add(Int2R(1), terminal_g))),
                                       Sub(r, terminal_g)))
             IN  Add(Sum(discounted),
                     Float(Div(terminal, Power(Add(Int2R(1), r), 5))))

buffett_value(t, g0, r0) ==
    LET fcf0 == normalized_fcf(t)
        g == IF g0 = None THEN growth_rate(t) ELSE g0
        r == IF r0 = None THEN discount_rate(t) ELSE r0
    IN  IF ~_is_valid(fcf0) \/ ~_is_valid(g) \/ Le(r, g) THEN NaN
        ELSE Div(Mul(fcf0, Add(Int2R(1), g)), Sub(r, g))

\* multiples_value without the test of the earnings per share
multiples_value_any_eps(t, pe_fair) ==
    LET ni == t.net_income
        shares == t.ordinary_shares_number
    IN  IF ~ni.present \/ ~shares.present THEN NaN
        ELSE LET ni_v == iloc_back(ni.cells, 1)
                 sh == iloc_back(shares.cells, 1)
                 eps == Div(ni_v, sh)
             IN  IF ~_is_valid(ni_v) \/ Le(sh, Int2R(0)) THEN NaN
                 ELSE Mul(eps, Int2R(pe_fair))

multiples_value(t, pe_fair) ==
    LET ni == t.net_income
        shares == t.ordinary_shares_number
    IN  IF ~ni.present \/ ~shares.present THEN NaN
        ELSE LET ni_v == iloc_back(ni.cells, 1)
                 sh == iloc_back(shares.cells, 1)
                 eps == Div(ni_v, sh)
             IN  IF ~_is_valid(ni_v) \/ Le(sh, Int2R(0)) THEN NaN
                 ELSE IF Le(eps, Int2R(0)) THEN NaN
                 ELSE Mul(eps, Int2R(pe_fair))

_scenario_params(t) ==
    LET g_base == growth_rate(t)
        r_base == discount_rate(t)
    IN  [base |-> [g |-> g_base, r |-> r_base, terminal_g |-> R(2, 100), pe |-> 15],
         bull |-> [g |-> IF _is_valid(g_base)
                         THEN clip(Add(g_base, R(2, 100)), R(2, 100), R(12, 100))
                         ELSE NaN,
                   r |-> IF _is_valid(r_base)
                         THEN clip(Sub(r_base, R(1, 100)), R(7, 100), R(12, 100))
                         ELSE NaN,
                   terminal_g |-> R(3, 100), pe |-> 18],
         bear |-> [g |-> IF _is_valid(g_base)
                         THEN clip(Sub(g_base, R(1, 100)), Int2R(0), R(8, 100))
                         ELSE NaN,
                   r |-> IF _is_valid(r_base)
                         THEN clip(Add(r_base, R(1, 100)), R(7, 100), R(13, 100))
                         ELSE NaN,
                   terminal_g |-> R(15, 1000), pe |-> 12]]

\* the three per-share model values of analyze, for the default assumptions
\* (g0 and r0 None) or for those of a scenario
model_values(t, g0, r0, terminal_g, pe_fair) ==
    <<_to_per_share(_equity_value_from_enterprise(
                        dcf_value(t, g0, r0, terminal_g), t), t),
      _to_per_share(_equity_value_from_enterprise(
                        buffett_value(t, g0, r0), t), t),
      multiples_value(t, pe_fair)>>

\* what one pass of the scenario loop of analyze keeps of its model values
scenario_result(p, scenario_values) ==
    LET score == _safe_score(scenario_values)
    IN  [fair_value |-> score.value,
         confidence |-> score.confidence,
         assumptions |-> p,
         dcf_ps |-> scenario_values[1],
         buffett_ps |-> scenario_values[2]]

\* one pass of the scenario loop of analyze
scenario(t, p) ==
    scenario_result(p, model_values(t, p.g, p.r, p.terminal_g, p.pe))

\* the exception analyze ends with
Raised == [raised |-> "IndexError"]

\* dcf_ps and buffett_ps are assigned again by every pass of the scenario loop:
\* the returned ones are those of the last scenario, bear
ValuationEngine_result(base_values, base, bull, bear) ==
    LET score == _safe_score(base_values)
    IN  [dcf_value |-> bear.dcf_ps,
         buffett_value |-> bear.buffett_ps,
         multiples_value |-> base_values[3],
         fair_value |-> IF _is_valid(score.value) THEN round(score.value, 2)
                                                  ELSE NaN,
         valuation_confidence |-> score.confidence,
         scenarios |-> [n \in {"base", "bull", "bear"} |->
                           LET s == CASE n = "base" -> base
                                      [] n = "bull" -> bull
                                      [] n = "bear" -> bear
                           IN  [fair_value |-> s.fair_value,
                                confidence |-> s.confidence,
                                assumptions |-> s.assumptions]]]

ValuationEngine_analyze(t) ==
    IF \/ IndexError(t.revenue_cagr_3y) \/ IndexError(t.fcf_cagr_3y)
       \/ IndexError(t.debt_to_assets)
       \/ (t.net_income.present /\ t.ordinary_shares_number.present
           /\ (IndexError(t.net_income) \/ IndexError(t.ordinary_shares_number)))
    THEN Raised
    ELSE ValuationEngine_result(model_values(t, None, None, R(2, 100), 15),
                                scenario(t, _scenario_params(t).base),
                                scenario(t, _scenario_params(t).bull),
                                scenario(t, _scenario_params(t).bear))

----------------------------------------------------------------------------
(* MarketAnalyzer, src/src/analyst/market.py *)

\* the first of the named columns the table holds, NoColumn (None) without one
RECURSIVE find_field(_, _)
find_field(t, possible_names) ==
    IF possible_names = <<>> THEN NoColumn
    ELSE IF t[Head(possible_names)].present THEN t[Head(possible_names)]
    ELSE find_field(t, Tail(possible_names))

\* price_df if it is given, else the feature table
source(t, price_df) == IF price_df # NoTable THEN price_df ELSE t

\* market_price without the override
market_price_no_override(t, override_price, price_df) ==
    LET price == find_field(source(t, price_df), <<"close", "adj_close", "price">>)
    IN  IF ~price.present THEN NaN ELSE iloc_back(price.cells, 1)

market_price(t, override_price, price_df) ==
    IF override_price # None /\ IsNum(override_price) THEN override_price
    ELSE LET price == find_field(source(t, price_df),
                                 <<"close", "adj_close", "price">>)
         IN  IF ~price.present THEN NaN ELSE iloc_back(price.cells, 1)

\* price.iloc[-1] / price.iloc[-n] - 1
trailing_return(cells, n) ==
    Sub(Div(iloc_back(cells, 1), iloc_back(cells, n)), Int2R(1))

\* the dict of trailing returns, <<>> being the empty dict
returns(t, price_df) ==
    LET price == find_field(source(t, price_df), <<"close", "adj_close">>)
    IN  IF ~price.present \/ Len(price.cells) < 252 THEN <<>>
        ELSE [h \in {"1Y", "3Y", "5Y"} |->
                 CASE h = "1Y" -> trailing_return(price.cells, 252)
                   [] h = "3Y" -> IF Len(price.cells) > 756
                                  THEN trailing_return(price.cells, 756) ELSE NaN
                   [] h = "5Y" -> IF Len(price.cells) > 1260
                                  THEN trailing_return(price.cells, 1260) ELSE NaN]

\* Series.pct_change()
pct_change(cells) ==
    [i \in 1..Len(cells) |->
        IF i = 1 THEN NaN ELSE Sub(Div(cells[i], cells[i - 1]), Int2R(1))]

volatility(t, price_df) ==
    LET price == find_field(source(t, price_df), <<"close", "adj_close">>)
    IN  IF ~price.present THEN NaN
        ELSE LET rets == dropna(pct_change(price.cells))
             IN  IF Len(rets) < 2 THEN NaN
                 ELSE Mul(std(rets), Sqrt(Int2R(252)))

\* over the rows lo..hi, entered with the running maximum peak of
\* cumulative = price / price.iloc[0]: the running maximum after them and the
\* least of (cumulative - peak) / peak among them; NaN is skipped
RECURSIVE drawdown(_, _, _, _)
drawdown(cells, lo, hi, peak) ==
    IF lo = hi
    THEN LET cumulative == Div(cells[lo], cells[1])
             pk == IF ~IsNum(peak) THEN cumulative ELSE RMax(peak, cumulative)
         IN  [peak |-> pk, low |-> Div(Sub(cumulative, pk), pk)]
    ELSE LET mid == (lo + hi) \div 2
             left == drawdown(cells, lo, mid, peak)
             right == drawdown(cells, mid + 1, hi, left.peak)
         IN  [low |-> IF ~IsNum(left.low) THEN right.low
                      ELSE IF ~IsNum(right.low) THEN left.low
                      ELSE RMin(left.low, right.low),
              peak |-> right.peak]

max_drawdown(t, price_df) ==
    LET price == find_field(source(t, price_df), <<"close", "adj_close">>)
    IN  IF ~price.present THEN NaN
        ELSE drawdown(price.cells, 1, Len(price.cells), NaN).low

\* price / (per / sh) if per > 0 and sh > 0, NaN unless finite
multiple(price, per, shares) ==
    IF per.present /\ shares.present
       /\ Gt(iloc_back(per.cells, 1), Int2R(0))
       /\ Gt(iloc_back(shares.cells, 1), Int2R(0))
    THEN LET m == Div(price, Div(iloc_back(per.cells, 1),
                                 iloc_back(shares.cells, 1)))
         IN  IF IsNum(m) THEN m ELSE NaN
    ELSE NaN

market_multiples(t, market_price_override, price_df) ==
    LET price == market_price(t, market_price_override, price_df)
    IN  [PE |-> multiple(price, t.net_income, t.ordinary_shares_number),
         P_FCF |-> multiple(price, t.free_cash_flow, t.ordinary_shares_number)]

\* the .iloc[-1] and .iloc[0] of analyze that meet a column without rows
MarketAnalyzer_raises(t, market_price_override, price_df) ==
    \/ /\ ~(market_price_override # None /\ IsNum(market_price_override))
       /\ IndexError(find_field(source(t, price_df),
                                <<"close", "adj_close", "price">>))
    \/ IndexError(find_field(source(t, price_df), <<"close", "adj_close">>))
    \/ /\ t.net_income.present /\ t.ordinary_shares_number.present
       /\ IndexError(t.net_income) \/ IndexError(t.ordinary_shares_number)
    \/ /\ t.free_cash_flow.present /\ t.ordinary_shares_number.present
       /\ IndexError(t.free_cash_flow) \/ IndexError(t.ordinary_shares_number)

MarketAnalyzer_analyze(t, market_price_override, price_df) ==
    IF MarketAnalyzer_raises(t, market_price_override, price_df) THEN Raised
    ELSE [market_price |-> market_price(t, market_price_override, price_df),
          returns |-> returns(t, price_df),
          volatility |-> volatility(t, price_df),
          max_drawdown |-> max_drawdown(t, price_df),
          multiples |-> market_multiples(t, market_price_override, price_df)]

----------------------------------------------------------------------------
(* AnalystEngine, src/src/analyst/analyst_engine.py *)

\* the returned dict with growth_score read from the key "growth_score", which
\* the quality block does not hold
AnalystEngine_result_wrong_key(qual, val, mkt, rat) ==
    [quality |-> qual, valuation |-> val, market |-> mkt, rating |-> rat,
     quality_score |-> qual.quality_score,
     growth_score |-> None,
     profitability_score |-> qual.profitability_score,
     financial_strength_score |-> qual.financial_strength_score,
     stability_score |-> qual.stability_score,
     quality_confidence |-> qual.quality_confidence,
     fair_value |-> val.fair_value,
     valuation_confidence |-> val.valuation_confidence,
     dcf_value |-> val.dcf_value,
     buffett_value |-> val.buffett_value,
     multiples_value |-> val.multiples_value,
     market_price |-> mkt.market_price,
     value_score |-> rat.value_score,
     risk_score |-> rat.risk_score,
     market_score |-> rat.market_score,
     total_score |-> rat.total_score,
     rating_label |-> rat.rating]

\* the dict analyze returns: the four blocks and the flat fields read from them
AnalystEngine_result(qual, val, mkt, rat) ==
    [quality |-> qual, valuation |-> val, market |-> mkt, rating |-> rat,
     quality_score |-> qual.quality_score,
     growth_score |-> qual.growth_quality_score,
     profitability_score |-> qual.profitability_score,
     financial_strength_score |-> qual.financial_strength_score,
     stability_score |-> qual.stability_score,
     quality_confidence |-> qual.quality_confidence,
     fair_value |-> val.fair_value,
     valuation_confidence |-> val.valuation_confidence,
     dcf_value |-> val.dcf_value,
     buffett_value |-> val.buffett_value,
     multiples_value |-> val.multiples_value,
     market_price |-> mkt.market_price,
     value_score |-> rat.value_score,
     risk_score |-> rat.risk_score,
     market_score |-> rat.market_score,
     total_score |-> rat.total_score,
     rating_label |-> rat.rating]

\* an exception of a component ends analyze: no later step runs
AnalystEngine_raises(qual, val, mkt) == Raised \in {qual, val, mkt}

\* analyze as a whole: the four steps in the order of the code
AnalystEngine_analyze(t, market_price_override, price_df) ==
    LET qual == QualityAnalyzer_analyze(t)
        val == ValuationEngine_analyze(t)
        mkt == MarketAnalyzer_analyze(t, market_price_override, price_df)
    IN  IF AnalystEngine_raises(qual, val, mkt) THEN Raised
        ELSE AnalystEngine_result(qual, val, mkt,
                                  RatingEngine_analyze(qual, val, mkt))

----------------------------------------------------------------------------
(* ReportAssembler, src/src/reporting/assembler.py, and the steps of main,
   src/main.py, that follow analyze *)

ZeroDivisionError == [raised |-> "ZeroDivisionError"]

\* ReportAssembler._is_finite: float(value) == float(value); None and NaN
\* fail, every number and infinity pass
ReportAssembler_is_finite(value) == value # None /\ value.k # "nan"

\* a / b on two Python floats, neither NaN; a zero divisor raises
truediv(a, b) ==
    CASE b.k = "num" /\ b.n = 0 -> ZeroDivisionError
      [] a.k = "inf" /\ b.k = "inf" -> NaN
      [] a.k = "inf" -> Inf
      [] b.k = "inf" -> Int2R(0)
      [] OTHER -> Div(a, b)

\* fair_value / current_price - 1.0
upside(fair_value, current_price) ==
    LET ratio == truediv(fair_value, current_price)
    IN  IF ratio = ZeroDivisionError THEN ZeroDivisionError
        ELSE IF ratio.k = "inf" THEN Inf
        ELSE Sub(ratio, Int2R(1))

\* the dict build returns for the upside it computed
ReportAssembler_result(analysis, up) ==
    LET quality_block == get(analysis, "quality", <<>>)
        valuation_block == get(analysis, "valuation", <<>>)
        market_block == get(analysis, "market", <<>>)
        rating_block == get(analysis, "rating", <<>>)
    IN  [quality |-> quality_block,
         valuation |-> valuation_block,
         market |-> market_block,
         current_price |-> get(market_block, "market_price", None),
         fair_value |-> get(valuation_block, "fair_value", None),
         upside |-> up,
         rating |-> get(rating_block, "rating", None),
         dcf_value |-> get(valuation_block, "dcf_value", None),
         buffett_value |-> get(valuation_block, "buffett_value", None),
         multiples_value |-> get(valuation_block, "multiples_value", None),
         valuation_confidence |->
             get(valuation_block, "valuation_confidence", None),
         quality_score |-> get(quality_block, "quality_score", None),
         profitability_score |->
             get(quality_block, "profitability_score", None),
         growth_score |-> get(quality_block, "growth_quality_score", None),
         financial_strength_score |->
             get(quality_block, "financial_strength_score", None),
         stability_score |-> get(quality_block, "stability_score", None),
         quality_confidence |-> get(quality_block, "quality_confidence", None),
         value_score |-> get(rating_block, "value_score", None),
         market_score |-> get(rating_block, "market_score", None),
         risk_score |-> get(rating_block, "risk_score", None),
         total_score |-> get(rating_block, "total_score", None),
         rating_confidence |-> get(rating_block, "score_confidence", None)]

\* ReportAssembler.build: the upside of the market block's price, then the dict
ReportAssembler_build(analysis) ==
    LET current_price == get(get(analysis, "market", <<>>), "market_price", None)
        fair_value == get(get(analysis, "valuation", <<>>), "fair_value", None)
        up == IF /\ ReportAssembler_is_finite(current_price)
                 /\ ReportAssembler_is_finite(fair_value)
              THEN upside(fair_value, current_price)
              ELSE None
    IN  IF up = ZeroDivisionError THEN ZeroDivisionError
        ELSE ReportAssembler_result(analysis, up)

\* main after build: the price of the metadata replaces the market block's, and
\* the upside is computed again where that price is a positive number
main_results(results, metadata_price) ==
    LET fair_value == results.fair_value
    IN  [results EXCEPT
            !.current_price = metadata_price,
            !.upside =
                IF /\ metadata_price # None
                   /\ fair_value # None
                   /\ metadata_price.k # "nan"
                   /\ fair_value.k # "nan"
                   /\ (metadata_price.k = "inf" \/ Lt(Int2R(0), metadata_price))
                THEN upside(fair_value, metadata_price)
                ELSE @]

----------------------------------------------------------------------------
(* The dicts RatingEngine.analyze is called with *)

MaxPrice == 4
MaxQ == 2
MaxVol == 2
MaxDd == 1
ConfSteps == 2
Models == 3

Absent == {None, NaN}
PriceVals == Absent \cup {Inf} \cup {Int2R(i) : i \in -1..MaxPrice}
FairVals == Absent \cup {Inf} \cup {Int2R(i) : i \in -1..MaxPrice}
QualityScoreVals == Absent \cup {Int2R(120 * i - 60) : i \in 0..MaxQ}
VolVals == Absent \cup {R(3 * i, 4) : i \in 0..MaxVol}
DdVals == Absent \cup {R(-i, 2) : i \in 0..MaxDd}
QualityConfVals == {None} \cup {R(i, ConfSteps) : i \in 0..ConfSteps}
ValuationConfVals == {None} \cup {R(i, Models) : i \in 0..Models}

QualityDicts == [quality_score : QualityScoreVals, quality_confidence : QualityConfVals]
ValuationDicts == [fair_value : FairVals, valuation_confidence : ValuationConfVals]
MarketDicts == [market_price : PriceVals, volatility : VolVals, max_drawdown : DdVals]

InitRating ==
    /\ done = {"quality", "valuation", "market"}
    /\ df = NoTable
    /\ quality \in QualityDicts
    /\ valuation \in ValuationDicts
    /\ market \in MarketDicts
    /\ rating = NoResult
    /\ call = NoResult
    /\ metric = NoResult
    /\ result = NoResult
    /\ report = NoResult

\* AnalystEngine.analyze step 4: the rating, once the three inputs exist.
Rating ==
    /\ {"quality", "valuation", "market"} \subseteq done
    /\ "rating" \notin done
    /\ ~AnalystEngine_raises(quality, valuation, market)
    /\ rating' = RatingEngine_analyze(quality, valuation, market)
    /\ done' = done \cup {"rating"}
    /\ UNCHANGED <<df, quality, valuation, market, call, metric, result,
                   report>>

NextRating == Rating

SpecRating == InitRating /\ [][NextRating]_vars

\* The same call with dicts whose confidence fields may also hold NaN, which no
\* component of the engine produces but a caller of RatingEngine.analyze can pass.
InitRatingAnyDict ==
    /\ done = {"quality", "valuation", "market"}
    /\ df = NoTable
    /\ quality \in [quality_score : QualityScoreVals,
                    quality_confidence : QualityConfVals \cup {NaN}]
    /\ valuation \in [fair_value : FairVals,
                      valuation_confidence : ValuationConfVals \cup {NaN}]
    /\ market \in MarketDicts
    /\ rating = NoResult
    /\ call = NoResult
    /\ metric = NoResult
    /\ result = NoResult
    /\ report = NoResult

SpecRatingAnyDict == InitRatingAnyDict /\ [][NextRating]_vars

----------------------------------------------------------------------------
(* The feature tables QualityAnalyzer.analyze is called with *)

\* the rows of the table; a series shorter than the table starts with NaN
Rows == 5

RECURSIVE Pad(_)
Pad(cells) == IF Len(cells) >= Rows THEN cells ELSE Pad(<<NaN>> \o cells)

Series(cells) == Column(Pad(cells))

Pct(i) == R(i, 100)

OperatingMarginPool ==
    {NoColumn,
     Series(<<Pct(10), Pct(12)>>),
     Series(<<Pct(10), NaN, Pct(20), Pct(30)>>),
     Series(<<Pct(2), Pct(2), Pct(2), Pct(2), Pct(2)>>)}

NetMarginPool ==
    {NoColumn,
     Series(<<Pct(8), Pct(10), NaN, Pct(12)>>),
     Series(<<Pct(30), NaN, NaN, Pct(20), Pct(10)>>)}

RevenuePool ==
    {NoColumn,
     Series(<<Int2R(100), Int2R(110)>>),
     Series(<<Int2R(100), Int2R(110), Int2R(121)>>),
     Series(<<Int2R(0), Int2R(110), Int2R(121)>>),
     Series(<<Int2R(100), Int2R(100), Int2R(100), Int2R(100), Int2R(100)>>)}

FreeCashFlowPool ==
    {NoColumn,
     Series(<<Int2R(10), Int2R(11)>>),
     Series(<<Int2R(10), NaN, Int2R(10), Int2R(10)>>),
     Series(<<Int2R(10), Int2R(11), Int2R(14)>>),
     Series(<<Int2R(-5), Int2R(10), Int2R(12)>>)}

NetIncomePool ==
    {NoColumn,
     Series(<<Int2R(5), Int2R(6), Int2R(7), Int2R(8)>>),
     Series(<<Int2R(-5), Int2R(0), Int2R(5)>>)}

DebtToEquityPool == {NoColumn, Series(<<>>), Series(<<R(1, 2), NaN>>)}
DebtToAssetsPool == {NoColumn, Series(<<>>), Series(<<R(3, 10)>>)}
CurrentRatioPool == {NoColumn, Series(<<Int2R(2)>>)}
QuickRatioPool == {NoColumn, Series(<<Int2R(1), NaN>>)}

QualityTables ==
    [operating_margin : OperatingMarginPool,
     net_margin : NetMarginPool,
     total_revenue : RevenuePool,
     net_income : NetIncomePool,
     free_cash_flow : FreeCashFlowPool,
     debt_to_equity : DebtToEquityPool,
     debt_to_assets : DebtToAssetsPool,
     current_ratio : CurrentRatioPool,
     quick_ratio : QuickRatioPool]

InitQuality ==
    /\ done = {}
    /\ df \in QualityTables
    /\ quality = NoResult
    /\ valuation = NoResult
    /\ market = NoResult
    /\ rating = NoResult
    /\ call = NoResult
    /\ metric = NoResult
    /\ result = NoResult
    /\ report = NoResult

\* AnalystEngine.analyze step 1: the quality analysis of the table.
Quality ==
    /\ "quality" \notin done
    /\ ~AnalystEngine_raises(quality, valuation, market)
    /\ quality' = QualityAnalyzer_analyze(df)
    /\ done' = done \cup {"quality"}
    /\ UNCHANGED <<df, valuation, market, rating, call, metric, result, report>>

NextQuality == Quality

SpecQuality == InitQuality /\ [][NextQuality]_vars

----------------------------------------------------------------------------
(* Claims about QualityAnalyzer *)

QualityDone == "quality" \in done

DimensionScores ==
    <<quality.profitability_score, quality.growth_quality_score,
      quality.financial_strength_score, quality.stability_score>>

DimensionConfidences ==
    <<quality.profitability_confidence, quality.growth_confidence,
      quality.financial_strength_confidence, quality.stability_confidence>>

PresentDimensions == {i \in 1..4 : IsNum(DimensionScores[i])}

\* C8: quality_score is absent (NaN) and quality_confidence is 0.0 whenever
\* fewer than 2 of the 4 dimension scores are present; with at least 2 present
\* quality_score is the mean of exactly the present dimension scores.
C8_QualityFloor ==
    QualityDone =>
        IF Cardinality(PresentDimensions) < 2
        THEN /\ quality.quality_score = NaN
             /\ quality.quality_confidence = Int2R(0)
        ELSE Mul(quality.quality_score, Int2R(Cardinality(PresentDimensions))) =
                 Sum([i \in 1..4 |->
                         IF i \in PresentDimensions THEN DimensionScores[i] ELSE Int2R(0)])

\* a single scored dimension, with a positive confidence, gives no quality score
C8_Witness ==
    /\ QualityDone
    /\ Cardinality(PresentDimensions) = 1
    /\ \E i \in PresentDimensions : Gt(DimensionConfidences[i], Int2R(0))
    /\ quality.quality_score = NaN
    /\ quality.quality_confidence = Int2R(0)

\* C9: each dimension whose score is absent has a confidence of exactly 0.0.
C9_AbsentScoreZeroConfidence ==
    QualityDone =>
        \A i \in 1..4 : ~IsNum(DimensionScores[i]) => DimensionConfidences[i] = Int2R(0)

----------------------------------------------------------------------------
(* Calls of compute_with_fallback *)

MaxLen == 4
MaxYears == 3

CellVals == {NaN, Int2R(1), Int2R(2)}

SeriesUpTo(n) == UNION {[1..m -> CellVals] : m \in 0..n}

CoverageSeries == {NoColumn} \cup {Column(c) : c \in SeriesUpTo(MaxLen)}

InitCoverage ==
    /\ done = {}
    /\ df = NoTable
    /\ quality = NoResult
    /\ valuation = NoResult
    /\ market = NoResult
    /\ rating = NoResult
    /\ call \in [series : CoverageSeries,
                 preferred_years : 1..MaxYears,
                 minimum_years : 0..MaxYears]
    /\ metric = NoResult
    /\ result = NoResult
    /\ report = NoResult

\* the first call
Compute ==
    /\ metric = NoResult
    /\ metric' = compute_with_fallback(call.series, call.preferred_years,
                                       call.minimum_years)
    /\ UNCHANGED <<done, df, quality, valuation, market, rating, call,
                   result, report>>

\* a further call with the same preferred_years and minimum_years on any series
ComputeAgain ==
    /\ metric # NoResult
    /\ \E s \in CoverageSeries :
           /\ call' = [call EXCEPT !.series = s]
           /\ metric' = compute_with_fallback(s, call.preferred_years,
                                              call.minimum_years)
    /\ UNCHANGED <<done, df, quality, valuation, market, rating, result,
                   report>>

NextCoverage == Compute \/ ComputeAgain

SpecCoverage == InitCoverage /\ [][NextCoverage]_vars

----------------------------------------------------------------------------
(* Claims about the coverage utility *)

\* the number of non-missing points of the series of the call
NonMissing == IF call.series.present THEN Len(dropna(call.series.cells)) ELSE 0

Returned == metric # NoResult

CoverageOfOneCall ==
    Returned =>
        /\ Le(metric.confidence, Int2R(1))
        /\ Ge(metric.confidence, Int2R(0))
        /\ metric.value # None =>
               metric.confidence = R(metric.years_used, call.preferred_years)
        /\ NonMissing < call.minimum_years =>
               /\ metric.value = None
               /\ metric.confidence = Int2R(0)
               /\ metric.years_used = NonMissing

CoverageOfTwoCalls ==
    (Returned /\ Returned' /\ NonMissing' >= NonMissing) =>
        Ge(metric'.confidence, metric.confidence)

\* C10: for fixed preferred_years and minimum_years the confidence is
\* non-decreasing in the number of non-missing points, never exceeds 1.0,
\* equals years_used / preferred_years when a value is returned, and is 0.0
\* with no value and years_used = the non-missing count below minimum_years.
C10_CoverageMonotone == [](CoverageOfOneCall) /\ [][CoverageOfTwoCalls]_vars

\* four non-missing points against three preferred years: capped at 1.0
C10_Witness ==
    /\ Returned
    /\ NonMissing = 4
    /\ call.preferred_years = 3
    /\ metric.years_used = 3
    /\ metric.confidence = Int2R(1)
    /\ IsNum(metric.value)

----------------------------------------------------------------------------
(* Calls of aggregate_metric_results *)

MaxResults == 3
MaxMinValid == 2

\* None, a MetricResult with or without value, a dict with any of the two keys
Entries ==
    {NoneEntry}
    \cup {MetricResultEntry(MetricResult(v, 1, 2, c)) :
             v \in {None, NaN, Int2R(1), Int2R(4)}, c \in {R(1, 2), Int2R(1)}}
    \cup {DictEntry(<<>>),
          DictEntry([x \in {"value"} |-> Int2R(2)]),
          DictEntry([x \in {"confidence"} |-> Int2R(1)]),
          DictEntry([value |-> None, confidence |-> Int2R(1)]),
          DictEntry([value |-> Int2R(3), confidence |-> R(1, 4)])}

ResultLists == UNION {[1..m -> Entries] : m \in 0..MaxResults}

InitAggregate ==
    /\ done = {}
    /\ df = NoTable
    /\ quality = NoResult
    /\ valuation = NoResult
    /\ market = NoResult
    /\ rating = NoResult
    /\ call \in [results : ResultLists, min_valid : 0..MaxMinValid]
    /\ metric = NoResult
    /\ result = NoResult
    /\ report = NoResult

Aggregate ==
    /\ metric = NoResult
    /\ metric' = aggregate_metric_results(call.results, call.min_valid)
    /\ UNCHANGED <<done, df, quality, valuation, market, rating, call,
                   result, report>>

NextAggregate == Aggregate

SpecAggregate == InitAggregate /\ [][NextAggregate]_vars

----------------------------------------------------------------------------
(* Claims about aggregate_metric_results *)

\* the value an entry carries, None when it carries none
EntryValue(e) ==
    CASE e.kind = "None" -> None
      [] e.kind = "MetricResult" -> e.r.value
      [] e.kind = "dict" -> IF "value" \in DOMAIN e.items
                            THEN e.items["value"] ELSE None

EntryConfidence(e) ==
    CASE e.kind = "None" -> Int2R(0)
      [] e.kind = "MetricResult" -> e.r.confidence
      [] e.kind = "dict" -> IF "confidence" \in DOMAIN e.items
                            THEN e.items["confidence"] ELSE Int2R(0)

\* the entries of the call that carry a value
WithValue == SelectSeq(call.results, LAMBDA e : EntryValue(e) # None)

Aggregated == metric # NoResult

\* C11: entries without a value are ignored; below min_valid entries with a
\* value the result is value None with confidence 0.0, otherwise value and
\* confidence are the unweighted means over the entries with a value; used is
\* the number of entries with a value, total the number submitted, used <= total.
C11_Aggregate ==
    Aggregated =>
        /\ metric.used = Len(WithValue)
        /\ metric.total = Len(call.results)
        /\ metric.used <= metric.total
        /\ IF Len(WithValue) < call.min_valid
           THEN /\ metric.value = None
                /\ metric.confidence = Int2R(0)
           ELSE /\ metric.value =
                      Mean([i \in 1..Len(WithValue) |-> EntryValue(WithValue[i])])
                /\ metric.confidence =
                      Mean([i \in 1..Len(WithValue) |-> EntryConfidence(WithValue[i])])

\* a None entry and two entries with values 1 and 3 reach min_valid = 2: value 2, confidence (1/2 + 1/4) / 2, used 2 of 3
C11_Witness ==
    /\ Aggregated
    /\ call.min_valid = 2
    /\ call.results = <<NoneEntry,
                        MetricResultEntry(MetricResult(Int2R(1), 1, 2, R(1, 2))),
                        DictEntry([value |-> Int2R(3), confidence |-> R(1, 4)])>>
    /\ metric = [value |-> Int2R(2), used |-> 2, total |-> 3,
                 confidence |-> R(3, 8)]

----------------------------------------------------------------------------
(* The feature tables ValuationEngine.analyze is called with *)

\* tables of Rows rows, a column being absent, all NaN, or ending in the cells
\* given; and the tables without rows
ValuationTables ==
    [free_cash_flow : {NoColumn, Series(<<>>),
                       Series(<<Int2R(8), Int2R(10), Int2R(12)>>),
                       Series(<<Int2R(2), NaN>>)},
     revenue_cagr_3y : {NoColumn, Series(<<>>), Series(<<Pct(4)>>),
                        Series(<<Pct(20)>>), Series(<<Pct(-5)>>)},
     fcf_cagr_3y : {NoColumn, Series(<<Pct(12)>>), Series(<<Pct(6), NaN>>)},
     debt_to_assets : {NoColumn, Series(<<Int2R(0)>>), Series(<<R(1, 2)>>),
                       Series(<<Int2R(2)>>), Series(<<Int2R(-1)>>)},
     net_income : {NoColumn, Series(<<Int2R(6)>>), Series(<<Int2R(-3)>>),
                   Series(<<Int2R(1), NaN>>)},
     ordinary_shares_number : {NoColumn, Series(<<Int2R(2)>>), Series(<<Int2R(7)>>),
                               Series(<<Int2R(0)>>), Series(<<Int2R(4), NaN>>)},
     net_debt : {NoColumn, Series(<<Int2R(3)>>), Series(<<Int2R(-2), NaN>>)}]
    \cup
    [free_cash_flow : {NoColumn, Column(<<>>)},
     revenue_cagr_3y : {NoColumn, Column(<<>>)},
     fcf_cagr_3y : {NoColumn, Column(<<>>)},
     debt_to_assets : {NoColumn, Column(<<>>)},
     net_income : {NoColumn, Column(<<>>)},
     ordinary_shares_number : {NoColumn, Column(<<>>)},
     net_debt : {NoColumn, Column(<<>>)}]

InitValuation ==
    /\ done = {}
    /\ df \in ValuationTables
    /\ quality = NoResult
    /\ valuation = NoResult
    /\ market = NoResult
    /\ rating = NoResult
    /\ call = NoResult
    /\ metric = NoResult
    /\ result = NoResult
    /\ report = NoResult

\* step 2 dropping the net_debt column of the table it was given
Valuation_popping_net_debt ==
    /\ "valuation" \notin done
    /\ ~AnalystEngine_raises(quality, valuation, market)
    /\ valuation' = ValuationEngine_analyze(df)
    /\ df' = [df EXCEPT !.net_debt = NoColumn]
    /\ done' = done \cup {"valuation"}
    /\ UNCHANGED <<quality, market, rating, call, metric, result, report>>

Valuation ==
    /\ "valuation" \notin done
    /\ ~AnalystEngine_raises(quality, valuation, market)
    /\ valuation' = ValuationEngine_analyze(df)
    /\ done' = done \cup {"valuation"}
    /\ UNCHANGED <<df, quality, market, rating, call, metric, result, report>>

NextValuation == Valuation

SpecValuation == InitValuation /\ [][NextValuation]_vars

----------------------------------------------------------------------------
(* Claims about ValuationEngine *)

ValuationDone == "valuation" \in done

ValuationReturned == ValuationDone /\ valuation # Raised

\* the base-case per-share values of DCF, owner earnings and multiples
BaseCase == model_values(df, None, None, R(2, 100), 15)

PresentBaseCase == SelectSeq(BaseCase, IsNum)

\* C12: for every feature table analyze returns a valuation_confidence equal
\* to the number of present base-case per-share model values divided by 3; it
\* is 0 exactly when fair_value is absent, and with one present model or more
\* fair_value is the mean of the present model values.
C12_ValuationConfidence ==
    ValuationDone =>
        /\ valuation # Raised
        /\ valuation.valuation_confidence = R(Len(PresentBaseCase), Models)
        /\ (valuation.valuation_confidence = Int2R(0)) <=> ~IsNum(valuation.fair_value)
        /\ Len(PresentBaseCase) >= 1 => valuation.fair_value = Mean(PresentBaseCase)

\* the assumptions analyze evaluates the models under
Assumptions == {_scenario_params(df)[n] : n \in {"base", "bull", "bear"}}

\* under the assumptions p: r <= g leaves both DCF and owner earnings undefined,
\* as enterprise value, as equity value and per share, and the scenario's fair
\* value is the multiples value alone, with confidence 1/3, if that is defined
UndefinedPropagates(p) ==
    Le(p.r, p.g) =>
        LET dcf == dcf_value(df, p.g, p.r, p.terminal_g)
            buffett == buffett_value(df, p.g, p.r)
            values == model_values(df, p.g, p.r, p.terminal_g, p.pe)
            s == scenario(df, p)
        IN  /\ dcf = NaN /\ buffett = NaN
            /\ _equity_value_from_enterprise(dcf, df) = NaN
            /\ _equity_value_from_enterprise(buffett, df) = NaN
            /\ values[1] = NaN /\ values[2] = NaN
            /\ IsNum(values[3]) => /\ s.fair_value = values[3]
                                   /\ s.confidence = R(1, Models)

BaseRateBelowGrowth == Le(discount_rate(df), growth_rate(df))

\* C13 as stated: whenever r <= g both the DCF and the owner-earnings value
\* are undefined, also after net-debt subtraction and per-share conversion,
\* and if the multiples model is defined fair_value equals the multiples value
\* with valuation_confidence 1/3.
C13_FairValueIsMultiples ==
    ValuationReturned =>
        /\ \A p \in Assumptions : UndefinedPropagates(p)
        /\ (BaseRateBelowGrowth /\ IsNum(BaseCase[3])) =>
               /\ valuation.fair_value = BaseCase[3]
               /\ valuation.valuation_confidence = R(1, Models)

\* C13, amended: as above, fair_value being the multiples value rounded to two
\* decimals.
C13_UndefinedPropagation ==
    ValuationReturned =>
        /\ \A p \in Assumptions : UndefinedPropagates(p)
        /\ (BaseRateBelowGrowth /\ IsNum(BaseCase[3])) =>
               /\ valuation.fair_value = round(BaseCase[3], 2)
               /\ valuation.multiples_value = BaseCase[3]
               /\ valuation.valuation_confidence = R(1, Models)

\* r = 0.08 = g with net income 6 on 7 shares: fair_value 12.86 for a
\* multiples value of 90/7, confidence 1/3
C13_Witness ==
    /\ ValuationReturned
    /\ discount_rate(df) = R(8, 100)
    /\ growth_rate(df) = R(8, 100)
    /\ IsNum(normalized_fcf(df))
    /\ BaseCase = <<NaN, NaN, R(90, 7)>>
    /\ valuation.fair_value = R(1286, 100)
    /\ valuation.valuation_confidence = R(1, 3)

----------------------------------------------------------------------------
(* The price series and tables MarketAnalyzer.analyze is called with *)

\* n daily observations of one price
Flat(n) == [i \in 1..n |-> Int2R(3)]

\* a column of a price table: the observations raised by k
Quoted(cells, k) == Column([i \in 1..Len(cells) |-> Add(cells[i], Int2R(k))])

\* the price tables holding any of close, adj_close and price, for the
\* observations of the pool
PriceFrames(pool) ==
    {[close |-> IF "close" \in held THEN Quoted(cells, 0) ELSE NoColumn,
      adj_close |-> IF "adj_close" \in held THEN Quoted(cells, 1) ELSE NoColumn,
      price |-> IF "price" \in held THEN Quoted(cells, 2) ELSE NoColumn] :
        cells \in pool, held \in SUBSET {"close", "adj_close", "price"}}

\* market_price: None, NaN, infinity or a price
Overrides == {None, NaN, Inf, Int2R(5)}

\* the columns of the feature table MarketAnalyzer reads; tables of Rows rows
\* and tables without rows
MarketTables ==
    [close : {NoColumn, Series(<<Int2R(6), Int2R(9), Int2R(6)>>)},
     adj_close : {NoColumn, Series(<<Int2R(7)>>)},
     price : {NoColumn, Series(<<Int2R(8)>>)},
     net_income : {NoColumn, Series(<<Int2R(6)>>)},
     free_cash_flow : {NoColumn, Series(<<Int2R(-2)>>)},
     ordinary_shares_number : {NoColumn, Series(<<Int2R(2)>>)}]
    \cup
    [close : {NoColumn, Column(<<>>)},
     adj_close : {NoColumn, Column(<<>>)},
     price : {NoColumn, Column(<<>>)},
     net_income : {NoColumn, Column(<<>>)},
     free_cash_flow : {NoColumn, Column(<<>>)},
     ordinary_shares_number : {NoColumn, Column(<<>>)}]

\* price_df is None or a table of no, one or three observations, for every
\* feature table and override; or a table of a constant price over the lengths
\* around the three horizons of returns, for the feature tables holding at
\* most close
InitMarket ==
    /\ done = {}
    /\ quality = NoResult
    /\ valuation = NoResult
    /\ market = NoResult
    /\ rating = NoResult
    /\ metric = NoResult
    /\ result = NoResult
    /\ report = NoResult
    /\ \/ /\ df \in MarketTables
          /\ call \in [market_price : Overrides,
                        price_df : {NoTable} \cup PriceFrames(
                            {<<>>, <<Int2R(4)>>, <<Int2R(4), Int2R(2), Int2R(3)>>})]
       \/ /\ df \in {t \in MarketTables :
                         \A c \in DOMAIN t : t[c].present => c = "close"}
          /\ call \in [market_price : {None, Int2R(5)},
                        price_df : PriceFrames(
                            {Flat(n) : n \in {251, 252, 755, 756, 757,
                                               1259, 1260, 1261}})]

Market ==
    /\ "market" \notin done
    /\ ~AnalystEngine_raises(quality, valuation, market)
    /\ market' = MarketAnalyzer_analyze(df, call.market_price, call.price_df)
    /\ done' = done \cup {"market"}
    /\ UNCHANGED <<df, quality, valuation, rating, call, metric, result,
                   report>>

NextMarket == Market

SpecMarket == InitMarket /\ [][NextMarket]_vars

----------------------------------------------------------------------------
(* Claims about MarketAnalyzer *)

MarketDone == "market" \in done

MarketReturned == MarketDone /\ market # Raised

\* the series returns, volatility and max_drawdown read
PriceSeries == find_field(source(df, call.price_df), <<"close", "adj_close">>)

Observations == IF PriceSeries.present THEN Len(dropna(PriceSeries.cells)) ELSE 0

Defined(h) == h \in DOMAIN market.returns /\ IsNum(market.returns[h])

\* C18: with n daily price observations the whole returns result is undefined
\* when n < 252; otherwise the 1-year return is defined, the 3-year return is
\* defined if and only if n >= 756 and the 5-year return if and only if
\* n >= 1260.
C18_ReturnsByHorizon ==
    (MarketReturned /\ PriceSeries.present
        /\ Observations = Len(PriceSeries.cells)) =>
        IF Observations < 252 THEN market.returns = <<>>
        ELSE /\ Defined("1Y")
             /\ Defined("3Y") <=> Observations >= 756
             /\ Defined("5Y") <=> Observations >= 1260

HasOverride == call.market_price # None /\ IsNum(call.market_price)

\* the last cell of the first of close, adj_close and price the table holds
LastPriceLike(t) ==
    IF t.close.present THEN iloc_back(t.close.cells, 1)
    ELSE IF t.adj_close.present THEN iloc_back(t.adj_close.cells, 1)
    ELSE iloc_back(t.price.cells, 1)

HasPriceLike(t) == t.close.present \/ t.adj_close.present \/ t.price.present

\* C19: a present, finite override is the market_price whatever the price
\* series and the table hold; without one it is the last observed price of
\* the price series; and without a price series it is the last price-like
\* field (close, adj_close, price) of the feature table if there is such a
\* column, else undefined.
C19_PriceResolution ==
    MarketDone =>
        /\ HasOverride =>
               /\ market_price(df, call.market_price, call.price_df)
                      = call.market_price
               /\ MarketReturned => market.market_price = call.market_price
        /\ (~HasOverride /\ MarketReturned) =>
               IF call.price_df # NoTable
               THEN HasPriceLike(call.price_df) =>
                        market.market_price = LastPriceLike(call.price_df)
               ELSE IF HasPriceLike(df)
                    THEN market.market_price = LastPriceLike(df)
                    ELSE market.market_price = NaN

\* an override of 5 against a price series closing at 3 and a table closing
\* at 6
C19_Witness ==
    /\ MarketReturned
    /\ call.market_price = Int2R(5)
    /\ call.price_df # NoTable
    /\ call.price_df.close = Column(<<Int2R(4), Int2R(2), Int2R(3)>>)
    /\ df.close.present /\ iloc_back(df.close.cells, 1) = Int2R(6)
    /\ market.market_price = Int2R(5)

\* no override: the price series, closing at 3, before the table, closing at 6
C19_WitnessSeries ==
    /\ MarketReturned
    /\ call.market_price = NaN
    /\ call.price_df # NoTable
    /\ call.price_df.close = Column(<<Int2R(4), Int2R(2), Int2R(3)>>)
    /\ df.close.present /\ iloc_back(df.close.cells, 1) = Int2R(6)
    /\ market.market_price = Int2R(3)

----------------------------------------------------------------------------
(* The tables and arguments AnalystEngine.analyze is called with *)

Columns ==
    {"operating_margin", "net_margin", "total_revenue", "net_income",
     "free_cash_flow", "debt_to_equity", "debt_to_assets", "current_ratio",
     "quick_ratio", "revenue_cagr_3y", "fcf_cagr_3y", "ordinary_shares_number",
     "net_debt", "close", "adj_close", "price"}

\* the columns a table holds: those of any of the groups of columns that come
\* and go together
Holdings ==
    {UNION gs : gs \in SUBSET
        {{"operating_margin", "net_margin"},
         {"total_revenue", "net_income"},
         {"free_cash_flow", "fcf_cagr_3y"},
         {"debt_to_equity", "debt_to_assets", "current_ratio", "quick_ratio"},
         {"revenue_cagr_3y"},
         {"ordinary_shares_number", "net_debt"},
         {"close", "adj_close", "price"}}}

\* a table of Rows rows with a value in most cells
FullYears ==
    [operating_margin |-> Series(<<Pct(10), Pct(12), Pct(15)>>),
     net_margin |-> Series(<<Pct(8), Pct(10), Pct(9), Pct(12)>>),
     total_revenue |-> Series(<<Int2R(100), Int2R(110), Int2R(121)>>),
     net_income |-> Series(<<Int2R(5), Int2R(6), Int2R(7), Int2R(6)>>),
     free_cash_flow |-> Series(<<Int2R(8), Int2R(10), Int2R(12)>>),
     debt_to_equity |-> Series(<<R(1, 2)>>),
     debt_to_assets |-> Series(<<R(1, 2)>>),
     current_ratio |-> Series(<<Int2R(2)>>),
     quick_ratio |-> Series(<<Int2R(1)>>),
     revenue_cagr_3y |-> Series(<<Pct(4)>>),
     fcf_cagr_3y |-> Series(<<Pct(12)>>),
     ordinary_shares_number |-> Series(<<Int2R(2)>>),
     net_debt |-> Series(<<Int2R(3)>>),
     close |-> Series(<<Int2R(6), Int2R(9), Int2R(6)>>),
     adj_close |-> Series(<<Int2R(7)>>),
     price |-> Series(<<Int2R(8)>>)]

\* a table of Rows rows with missing years, losses and no shares
SparseYears ==
    [operating_margin |-> Series(<<Pct(10), NaN, Pct(20), Pct(30)>>),
     net_margin |-> Series(<<Pct(30), NaN, NaN, Pct(20), Pct(10)>>),
     total_revenue |-> Series(<<Int2R(0), Int2R(110), Int2R(121)>>),
     net_income |-> Series(<<Int2R(-5), Int2R(0), Int2R(-3)>>),
     free_cash_flow |-> Series(<<Int2R(2), NaN>>),
     debt_to_equity |-> Series(<<R(1, 2), NaN>>),
     debt_to_assets |-> Series(<<>>),
     current_ratio |-> Series(<<Int2R(2), NaN>>),
     quick_ratio |-> Series(<<Int2R(1), NaN>>),
     revenue_cagr_3y |-> Series(<<Pct(20)>>),
     fcf_cagr_3y |-> Series(<<Pct(6), NaN>>),
     ordinary_shares_number |-> Series(<<Int2R(0)>>),
     net_debt |-> Series(<<Int2R(-2), NaN>>),
     close |-> Series(<<Int2R(4), NaN>>),
     adj_close |-> Series(<<>>),
     price |-> Series(<<Int2R(8)>>)]

\* a table without rows
NoYears == [c \in Columns |-> Column(<<>>)]

\* the table holding the columns of held out of those of years
Table(years, held) ==
    [c \in Columns |-> IF c \in held THEN years[c] ELSE NoColumn]

EngineTables ==
    {Table(years, held) : years \in {FullYears, SparseYears, NoYears},
                          held \in Holdings}

\* price_df: None, or a price series of no, one or three observations
EnginePriceFrames ==
    {NoTable} \cup
    {[close |-> Column(cells), adj_close |-> NoColumn, price |-> NoColumn] :
        cells \in {<<>>, <<Int2R(4)>>, <<Int2R(4), Int2R(2), Int2R(3)>>}}

InitEngine ==
    /\ done = {}
    /\ df \in EngineTables
    /\ quality = NoResult
    /\ valuation = NoResult
    /\ market = NoResult
    /\ rating = NoResult
    /\ call \in [market_price : {None, Int2R(5)}, price_df : EnginePriceFrames]
    /\ metric = NoResult
    /\ result = NoResult
    /\ report = NoResult

\* analyze counting the runs in an engine that lives on between them, the
\* count returned as a further field
Return_counting_runs ==
    /\ "return" \notin done
    /\ \/ /\ AnalystEngine_raises(quality, valuation, market)
          /\ result' = Raised
       \/ /\ "rating" \in done
          /\ LET new == AnalystEngine_result(quality, valuation, market, rating)
                 runs == IF result \in {NoResult, Raised} THEN 0 ELSE result.runs
             IN  result' = [f \in DOMAIN new \cup {"runs"} |->
                               IF f = "runs" THEN runs + 1 ELSE new[f]]
    /\ done' = done \cup {"return"}
    /\ UNCHANGED <<df, quality, valuation, market, rating, call, metric,
                   report>>

\* analyze ends: with the exception of a component, or after step 4 with the
\* dict of the four blocks
Return ==
    /\ "return" \notin done
    /\ \/ /\ AnalystEngine_raises(quality, valuation, market)
          /\ result' = Raised
       \/ /\ "rating" \in done
          /\ result' = AnalystEngine_result(quality, valuation, market, rating)
    /\ done' = done \cup {"return"}
    /\ UNCHANGED <<df, quality, valuation, market, rating, call, metric,
                   report>>

\* analyze is called again with the same arguments, the caller holding what
\* the run before returned
Again ==
    /\ "return" \in done
    /\ done' = {}
    /\ quality' = NoResult
    /\ valuation' = NoResult
    /\ market' = NoResult
    /\ rating' = NoResult
    /\ UNCHANGED <<df, call, metric, result, report>>

\* steps 1 to 3 read the same arguments and nothing of each other: they are
\* taken in any order
NextEngine == Quality \/ Valuation \/ Market \/ Rating \/ Return \/ Again

SpecEngine == InitEngine /\ [][NextEngine]_vars

----------------------------------------------------------------------------
(* Claims about AnalystEngine *)

EngineDone == "return" \in done

EngineReturned == EngineDone /\ result # Raised

Blocks == {"quality", "valuation", "market", "rating"}

\* C14: whatever the table and the price series, sparse or without rows,
\* analyze ends with a complete result holding the four blocks, never with an
\* exception.
C14_NeverRaises ==
    EngineDone => /\ result # Raised
                  /\ Blocks \subseteq DOMAIN result

\* the same for the tables of at least one row and the price series of at
\* least one observation
C14_RaisesOnlyWithoutRows ==
    (/\ EngineDone
     /\ \A c \in Columns : ~IndexError(df[c])
     /\ call.price_df # NoTable => ~IndexError(call.price_df.close))
        => /\ result # Raised
           /\ Blocks \subseteq DOMAIN result

\* the outputs of the steps taken so far are those of the arguments, whatever
\* steps were taken before them
OutputsOfArguments ==
    /\ "quality" \in done => quality = QualityAnalyzer_analyze(df)
    /\ "valuation" \in done => valuation = ValuationEngine_analyze(df)
    /\ "market" \in done =>
           market = MarketAnalyzer_analyze(df, call.market_price, call.price_df)
    /\ "rating" \in done =>
           rating = RatingEngine_analyze(
                        QualityAnalyzer_analyze(df),
                        ValuationEngine_analyze(df),
                        MarketAnalyzer_analyze(df, call.market_price,
                                               call.price_df))

ReturnsAgain == result # NoResult /\ ~EngineDone /\ EngineDone'

C20_FlatIsNested ==
    EngineReturned =>
        /\ Blocks \subseteq DOMAIN result
        /\ \A b \in Blocks : result[b] \notin {NoResult, Raised}
        /\ result.quality_score = result.quality.quality_score
        /\ result.quality_confidence = result.quality.quality_confidence
        /\ result.profitability_score = result.quality.profitability_score
        /\ result.growth_score = result.quality.growth_quality_score
        /\ result.financial_strength_score
               = result.quality.financial_strength_score
        /\ result.stability_score = result.quality.stability_score
        /\ result.fair_value = result.valuation.fair_value
        /\ result.valuation_confidence = result.valuation.valuation_confidence
        /\ result.dcf_value = result.valuation.dcf_value
        /\ result.buffett_value = result.valuation.buffett_value
        /\ result.multiples_value = result.valuation.multiples_value
        /\ result.market_price = result.market.market_price
        /\ result.value_score = result.rating.value_score
        /\ result.risk_score = result.rating.risk_score
        /\ result.market_score = result.rating.market_score
        /\ result.total_score = result.rating.total_score
        /\ result.rating_label = result.rating.rating

\* a result with a growth score, a fair value and a market price in its blocks
C20_Witness ==
    /\ EngineReturned
    /\ IsNum(result.quality.growth_quality_score)
    /\ IsNum(result.valuation.dcf_value)
    /\ result.market.market_price = Int2R(6)
    /\ result.rating.rating \in {"BUY", "HOLD", "SELL"}

----------------------------------------------------------------------------
(* The engine's steps and a call of compute_with_fallback on one table *)

\* the series given to compute_with_fallback is a column of the table. Every
\* table is taken with one call of it; the tables holding every column, with
\* a call on each column for every preferred_years and minimum_years
InitConfidence ==
    /\ done = {}
    /\ df \in EngineTables
    /\ quality = NoResult
    /\ valuation = NoResult
    /\ market = NoResult
    /\ rating = NoResult
    /\ call \in [market_price : {None, Int2R(5)},
                 price_df : {NoTable},
                 series : {df[c] : c \in Columns},
                 preferred_years : 1..MaxYears,
                 minimum_years : 0..MaxYears]
    /\ \/ df \in {Table(years, Columns) :
                     years \in {FullYears, SparseYears, NoYears}}
       \/ /\ call.series = df.debt_to_equity
          /\ call.preferred_years = MaxYears
          /\ call.minimum_years = 1
    /\ metric = NoResult
    /\ result = NoResult
    /\ report = NoResult

NextConfidence == Quality \/ Valuation \/ Market \/ Rating \/ Compute

SpecConfidence == InitConfidence /\ [][NextConfidence]_vars

----------------------------------------------------------------------------
(* Claims about the confidences *)

InUnit(x) == IsNum(x) /\ Ge(x, Int2R(0)) /\ Le(x, Int2R(1))

\* C17: every confidence produced lies in [0,1]: the four dimension
\* confidences and quality_confidence of the quality block,
\* valuation_confidence and the confidence of each scenario of the valuation
\* block, the confidence of the MetricResult of compute_with_fallback, and the
\* score_confidence of the rating.
C17_ConfidencesInUnit ==
    /\ "quality" \in done =>
           /\ InUnit(quality.profitability_confidence)
           /\ InUnit(quality.growth_confidence)
           /\ InUnit(quality.financial_strength_confidence)
           /\ InUnit(quality.stability_confidence)
           /\ InUnit(quality.quality_confidence)
    /\ ("valuation" \in done /\ valuation # Raised) =>
           /\ InUnit(valuation.valuation_confidence)
           /\ \A n \in DOMAIN valuation.scenarios :
                  InUnit(valuation.scenarios[n].confidence)
    /\ metric # NoResult => InUnit(metric.confidence)
    /\ "rating" \in done => InUnit(rating.score_confidence)

\* every kind of confidence has been produced, the quality, valuation and
\* coverage ones strictly between 0 and 1
C17_Witness ==
    /\ "rating" \in done
    /\ metric # NoResult
    /\ Gt(quality.quality_confidence, Int2R(0))
    /\ Lt(quality.quality_confidence, Int2R(1))
    /\ Gt(valuation.valuation_confidence, Int2R(0))
    /\ Lt(valuation.valuation_confidence, Int2R(1))
    /\ \E n \in DOMAIN valuation.scenarios :
           /\ Gt(valuation.scenarios[n].confidence, Int2R(0))
           /\ Lt(valuation.scenarios[n].confidence, Int2R(1))
    /\ Gt(metric.confidence, Int2R(0))
    /\ Lt(metric.confidence, Int2R(1))
    /\ Gt(rating.score_confidence, Int2R(0))

----------------------------------------------------------------------------
(* Claims about RatingEngine *)

RatingDone == "rating" \in done

AllInputsAbsent ==
    /\ ~_is_valid(quality.quality_score)
    /\ ~_is_valid(valuation.fair_value)
    /\ ~_is_valid(market.market_price)
    /\ ~_is_valid(market.volatility)
    /\ ~_is_valid(market.max_drawdown)
    /\ conf_or_zero(quality.quality_confidence) = Int2R(0)
    /\ conf_or_zero(valuation.valuation_confidence) = Int2R(0)

\* C1: with every input absent and all confidences 0, the four sub-scores are
\* each exactly 50, the total is 50 and the rating is HOLD.
C1_RatingNeutrality ==
    (RatingDone /\ AllInputsAbsent) =>
        /\ \A i \in 1..4 : rating.scores[i] = Int2R(50)
        /\ rating.total = Int2R(50)
        /\ rating.total_score = Int2R(50)
        /\ rating.rating = "HOLD"

InScoreRange(x) == IsNum(x) /\ Ge(x, Int2R(0)) /\ Le(x, Int2R(100))

\* C2: for every combination of present, absent and NaN fields the four
\* sub-scores and the total are defined numbers in [0,100] and the rating is
\* one of BUY, HOLD, SELL.
C2_ScoresAlwaysDefined ==
    RatingDone =>
        /\ \A i \in 1..4 : InScoreRange(rating.scores[i])
        /\ InScoreRange(rating.total)
        /\ InScoreRange(rating.value_score)
        /\ InScoreRange(rating.quality_score)
        /\ InScoreRange(rating.market_score)
        /\ InScoreRange(rating.risk_score)
        /\ InScoreRange(rating.total_score)
        /\ rating.rating \in {"BUY", "HOLD", "SELL"}

C2_Witness ==
    /\ RatingDone
    /\ quality.quality_score = NaN
    /\ quality.quality_confidence = NaN
    /\ valuation.fair_value = None
    /\ valuation.valuation_confidence = Int2R(1)
    /\ market.market_price = Inf
    /\ market.volatility = R(3, 2)
    /\ market.max_drawdown = NaN

\* C3: total >= 75 gives BUY, 55 <= total < 75 gives HOLD, total < 55 gives
\* SELL, for every total the engine computes.
C3_RatingThresholds ==
    RatingDone =>
        /\ rating.rating = "BUY" <=> Ge(rating.total, Int2R(75))
        /\ rating.rating = "HOLD" <=>
               (Ge(rating.total, Int2R(55)) /\ Lt(rating.total, Int2R(75)))
        /\ rating.rating = "SELL" <=> Lt(rating.total, Int2R(55))

C3_Witness ==
    /\ RatingDone
    /\ rating.total = Int2R(55)
    /\ rating.rating = "HOLD"

\* The average of the sub-scores whose weight is positive, weighted by those
\* weights alone.
PositiveWeightAverage(scores, weights) ==
    LET pos(i) == Gt(weights[i], Int2R(0))
        num == Sum([i \in 1..4 |->
                       IF pos(i) THEN Mul(scores[i], weights[i]) ELSE Int2R(0)])
        den == Sum([i \in 1..4 |-> IF pos(i) THEN weights[i] ELSE Int2R(0)])
    IN  Div(num, den)

AllWeightsZero == \A i \in 1..4 : rating.weights[i] = Int2R(0)

\* C4: the total is the confidence-weighted average of the four sub-scores;
\* the unweighted mean is used if and only if all four weights are zero, and
\* a sub-score of weight 0 has no influence when another weight is positive.
C4_WeightedTotal ==
    RatingDone =>
        /\ rating.weights = <<conf_or_zero(valuation.valuation_confidence),
                              conf_or_zero(quality.quality_confidence),
                              market_confidence(market),
                              risk_confidence(market, valuation)>>
        /\ ~rating.weighted <=> AllWeightsZero
        /\ AllWeightsZero =>
               Mul(rating.total, Int2R(4)) = Sum(rating.scores)
        /\ ~AllWeightsZero =>
               rating.total = PositiveWeightAverage(rating.scores, rating.weights)

\* a zero-weight sub-score differing from the others, next to positive weights
C4_Witness ==
    /\ RatingDone
    /\ rating.weights[1] = Int2R(0)
    /\ rating.weights[2] = R(1, 2)
    /\ rating.weights[3] = Int2R(1)
    /\ rating.scores[1] = Int2R(100)
    /\ rating.scores[2] = Int2R(60)
    /\ Lt(rating.scores[3], Int2R(50))

OneIf(b) == IF b THEN Int2R(1) ELSE Int2R(0)

\* C5 as stated: market confidence is 1.0 iff volatility or max_drawdown is
\* present, risk confidence is 1.0 iff volatility, market price or fair value
\* is present; each is 0.0 otherwise.
C5_AnyInputGivesConfidence ==
    RatingDone =>
        /\ rating.weights[3] =
               OneIf(_is_valid(market.volatility) \/ _is_valid(market.max_drawdown))
        /\ rating.weights[4] =
               OneIf(\/ _is_valid(market.volatility)
                     \/ _is_valid(market.market_price)
                     \/ _is_valid(valuation.fair_value))

\* C5 amended: market confidence is 1.0 iff volatility or max_drawdown is
\* present; risk confidence is 1.0 iff volatility is present or market price
\* and fair value are both present; each is 0.0 otherwise.
C5_ConfidenceFromInputs ==
    RatingDone =>
        /\ rating.weights[3] =
               OneIf(_is_valid(market.volatility) \/ _is_valid(market.max_drawdown))
        /\ rating.weights[4] =
               OneIf(\/ _is_valid(market.volatility)
                     \/ (_is_valid(market.market_price) /\ _is_valid(valuation.fair_value)))

\* a price alone, without fair value or volatility, gives risk confidence 0
C5_Witness ==
    /\ RatingDone
    /\ _is_valid(market.market_price)
    /\ ~_is_valid(valuation.fair_value)
    /\ ~_is_valid(market.volatility)
    /\ _is_valid(market.max_drawdown)
    /\ rating.weights[3] = Int2R(1)
    /\ rating.weights[4] = Int2R(0)

\* 50 + 100 * (fair / price - 1), as (100 * fair - 50 * price) / price, cut to [0,100]
ExpectedValueScore(fair, price) ==
    LET raw == Div(Sub(Mul(Int2R(100), fair), Mul(Int2R(50), price)), price)
    IN  IF Lt(raw, Int2R(0)) THEN Int2R(0)
        ELSE IF Gt(raw, Int2R(100)) THEN Int2R(100)
        ELSE raw

\* C6: the value score is clamp(50 + 100 * (fair_value / price - 1), 0, 100)
\* when fair value and price are both present and finite and price > 0, and
\* the neutral 50 in every other case.
C6_ValueScore ==
    RatingDone =>
        rating.scores[1] =
            IF /\ IsNum(valuation.fair_value)
               /\ IsNum(market.market_price)
               /\ Gt(market.market_price, Int2R(0))
            THEN ExpectedValueScore(valuation.fair_value, market.market_price)
            ELSE Int2R(50)

\* fair value 4 at price 3: 50 + 100/3, strictly inside the clamp
C6_Witness ==
    /\ RatingDone
    /\ valuation.fair_value = Int2R(4)
    /\ market.market_price = Int2R(3)
    /\ rating.scores[1] = R(250, 3)

Overvalued ==
    /\ IsNum(market.market_price)
    /\ IsNum(valuation.fair_value)
    /\ Gt(market.market_price, valuation.fair_value)

\* 100 - 80 * volatility (100 without a volatility), cut to [0,100]
VolatilityOnlyRisk ==
    LET raw == IF IsNum(market.volatility)
               THEN R(100 * market.volatility.d - 80 * market.volatility.n,
                      market.volatility.d)
               ELSE Int2R(100)
    IN  RMax(Int2R(0), RMin(Int2R(100), raw))

PenalisedRisk ==
    LET raw == IF IsNum(market.volatility)
               THEN R(80 * market.volatility.d - 80 * market.volatility.n,
                      market.volatility.d)
               ELSE Int2R(80)
    IN  RMax(Int2R(0), RMin(Int2R(100), raw))

\* C7: the 20-point penalty is subtracted in the risk score if and only if
\* price and fair value are both present and finite and price > fair value;
\* otherwise the risk score depends on volatility alone.
C7_OvervaluationPenalty ==
    RatingDone =>
        /\ Overvalued => rating.scores[4] = PenalisedRisk
        /\ ~Overvalued => rating.scores[4] = VolatilityOnlyRisk

\* price above fair value with a volatility of 0.75: 100 - 60 - 20
C7_Witness ==
    /\ RatingDone
    /\ Overvalued
    /\ market.volatility = R(3, 4)
    /\ rating.scores[4] = Int2R(20)
    /\ VolatilityOnlyRisk = Int2R(40)

----------------------------------------------------------------------------
(* main from analyze to the results dict handed to the reporter *)

\* the feature tables of main: every column or none of a kind, full or sparse
ReportTables ==
    {Table(years, held) :
        years \in {FullYears, SparseYears},
        held \in {Columns,
                  Columns \ {"close", "adj_close", "price"},
                  Columns \ {"free_cash_flow", "fcf_cagr_3y", "total_revenue",
                             "net_income"}}}

\* the price file: missing, or closing prices ending above, at or below zero
ReportPriceFrames ==
    {NoTable} \cup
    {[close |-> Column(cells), adj_close |-> NoColumn, price |-> NoColumn] :
        cells \in {<<Int2R(4), Int2R(2)>>, <<Int2R(4), Int2R(0)>>,
                   <<Int2R(4), Int2R(-1)>>}}

\* current_price of the report metadata
MetadataPrices == {None, NaN, Inf, Int2R(0), Int2R(-5), Int2R(5)}

InitReport ==
    /\ done = {}
    /\ df \in ReportTables
    /\ quality = NoResult
    /\ valuation = NoResult
    /\ market = NoResult
    /\ rating = NoResult
    /\ call \in [market_price : MetadataPrices, price_df : ReportPriceFrames]
    /\ metric = NoResult
    /\ result = NoResult
    /\ report = NoResult

\* results = assembler.build(analysis)
Build ==
    /\ EngineReturned
    /\ "build" \notin done
    /\ report' = ReportAssembler_build(result)
    /\ done' = done \cup {"build"}
    /\ UNCHANGED <<df, quality, valuation, market, rating, call, metric, result>>

\* main's lines after build, where build returned
Main ==
    /\ "build" \in done
    /\ "main" \notin done
    /\ report # ZeroDivisionError
    /\ report' = main_results(report, call.market_price)
    /\ done' = done \cup {"main"}
    /\ UNCHANGED <<df, quality, valuation, market, rating, call, metric, result>>

NextReport ==
    Quality \/ Valuation \/ Market \/ Rating \/ Return \/ Build \/ Main

SpecReport == InitReport /\ [][NextReport]_vars

----------------------------------------------------------------------------
(* Claims about the upside *)

ReportBuilt == "build" \in done

\* a fair value and a price an upside may be computed of
Guarded(fair_value, current_price) ==
    /\ fair_value # None
    /\ IsNum(fair_value)
    /\ current_price # None
    /\ IsNum(current_price)
    /\ Lt(Int2R(0), current_price)

\* C21: build and main compute the upside only of a finite fair value and a
\* finite, strictly positive price; otherwise the report holds no upside, and
\* neither divides by zero or raises.
C21_UpsideGuarded ==
    ReportBuilt =>
        /\ report # ZeroDivisionError
        /\ report.upside # None =>
              \/ Guarded(report.fair_value, result.market_price)
              \/ /\ "main" \in done
                 /\ Guarded(report.fair_value, call.market_price)

\* the same without the prices of zero or below and the infinite ones: the
\* upside is there exactly for a finite fair value and a positive price, and it
\* is fair_value / current_price - 1 of the price the report holds or, where
\* the metadata have none, of the market block's
PositivePrices ==
    /\ call.market_price \in {None, NaN, Int2R(5)}
    /\ result.market_price.k = "num" => Lt(Int2R(0), result.market_price)

C21_UpsideOfPositivePrices ==
    (ReportBuilt /\ PositivePrices) =>
        /\ report # ZeroDivisionError
        /\ IF "main" \in done /\ Guarded(report.fair_value, call.market_price)
           THEN report.upside = Sub(Div(report.fair_value, call.market_price),
                                    Int2R(1))
           ELSE IF Guarded(report.fair_value, result.market_price)
           THEN report.upside = Sub(Div(report.fair_value, result.market_price),
                                    Int2R(1))
           ELSE report.upside = None

----------------------------------------------------------------------------
(* The tables the multiples model is evaluated on *)

\* net income and shares absent, all NaN, positive, zero, negative, infinite, or
\* missing in the latest or an earlier period
MultiplesTables ==
    [free_cash_flow : {NoColumn, Series(<<Int2R(8), Int2R(10), Int2R(12)>>)},
     revenue_cagr_3y : {NoColumn, Series(<<Pct(4)>>)},
     fcf_cagr_3y : {NoColumn},
     debt_to_assets : {NoColumn},
     net_income : {NoColumn, Series(<<>>), Series(<<Int2R(6)>>),
                   Series(<<Int2R(0)>>), Series(<<Int2R(-3)>>), Series(<<Inf>>),
                   Series(<<Int2R(1), NaN>>), Series(<<NaN, Int2R(5)>>)},
     ordinary_shares_number : {NoColumn, Series(<<>>), Series(<<Int2R(2)>>),
                               Series(<<Int2R(7)>>), Series(<<Int2R(0)>>),
                               Series(<<Int2R(-2)>>), Series(<<Inf>>),
                               Series(<<Int2R(4), NaN>>)},
     net_debt : {NoColumn}]

InitMultiples ==
    /\ done = {}
    /\ df \in MultiplesTables
    /\ quality = NoResult
    /\ valuation = NoResult
    /\ market = NoResult
    /\ rating = NoResult
    /\ call = NoResult
    /\ metric = NoResult
    /\ result = NoResult
    /\ report = NoResult

SpecMultiples == InitMultiples /\ [][NextValuation]_vars

----------------------------------------------------------------------------
(* Claims about the multiples model *)

\* the latest entries of net income and shares, NaN without the column
LatestNetIncome ==
    IF df.net_income.present THEN iloc_back(df.net_income.cells, 1) ELSE NaN

LatestShares ==
    IF df.ordinary_shares_number.present
    THEN iloc_back(df.ordinary_shares_number.cells, 1)
    ELSE NaN

\* latest net income / latest shares, where both are numbers and shares are
\* not zero; infinitely many shares leave earnings per share of zero
LatestEPS ==
    IF LatestShares.k = "inf" /\ IsNum(LatestNetIncome) THEN Int2R(0)
    ELSE Div(LatestNetIncome, LatestShares)

\* the target P/E of the three cases
TargetPE == [base |-> 15, bull |-> 18, bear |-> 12]

\* C22: in each case the multiples value is latest EPS x target P/E (15, 18,
\* 12), and undefined when EPS <= 0, shares <= 0, or net income or shares are
\* missing; it is never a non-positive or non-finite number. The multiples
\* value analyze returns is that of the base case.
C22_MultiplesValue ==
    ValuationDone =>
        /\ valuation # Raised
        /\ valuation.multiples_value = multiples_value(df, TargetPE.base)
        /\ \A n \in DOMAIN TargetPE :
              LET pe == _scenario_params(df)[n].pe
                  value == multiples_value(df, pe)
              IN  /\ pe = TargetPE[n]
                  /\ IF \/ ~IsNum(LatestNetIncome)
                        \/ ~IsNum(LatestShares)
                        \/ Le(LatestShares, Int2R(0))
                        \/ Le(LatestEPS, Int2R(0))
                     THEN value = NaN
                     ELSE /\ value = Mul(LatestEPS, Int2R(pe))
                          /\ Lt(Int2R(0), value)
                  /\ value.k \in {"num", "nan"}
                  /\ (\/ ~IsNum(LatestEPS) \/ Le(LatestEPS, Int2R(0))) =>
                        value = NaN

\* net income 6 on 2 shares: 45 at a P/E of 15
C22_Witness ==
    /\ ValuationReturned
    /\ LatestEPS = Int2R(3)
    /\ valuation.multiples_value = Int2R(45)

----------------------------------------------------------------------------
(* The tables the growth quality is computed of *)

\* revenue over the last three values growing by 10%, 6%, 5.5%, exactly 5%, 4%
\* and 0% a period, with a gap, from zero, and with two values only
GrowthRevenuePool ==
    {NoColumn,
     Series(<<Int2R(100), Int2R(110)>>),
     Series(<<Int2R(100), Int2R(110), Int2R(121)>>),
     Series(<<Int2R(100), NaN, Int2R(110), Int2R(121)>>),
     Series(<<R(10000, 100), R(10600, 100), R(11236, 100)>>),
     Series(<<Int2R(100), R(1055, 10), R(44521, 400)>>),
     Series(<<R(10000, 100), R(10500, 100), R(11025, 100)>>),
     Series(<<R(10000, 100), R(10400, 100), R(10816, 100)>>),
     Series(<<Int2R(0), Int2R(110), Int2R(121)>>),
     Series(<<Int2R(100), Int2R(100), Int2R(100), Int2R(100), Int2R(100)>>)}

\* free cash flow growing by 10%, exactly 2%, 1%, 0% and -10% a period over the
\* last three values (of mean 100), with a gap, turning negative, from a
\* negative start, and with two values only
GrowthFreeCashFlowPool ==
    {NoColumn,
     Series(<<Int2R(10), Int2R(11)>>),
     Series(<<Int2R(100), Int2R(79), Int2R(121)>>),
     Series(<<Int2R(100), R(9596, 100), R(10404, 100)>>),
     Series(<<Int2R(100), R(9799, 100), R(10201, 100)>>),
     Series(<<Int2R(10), NaN, Int2R(10), Int2R(10)>>),
     Series(<<Int2R(100), Int2R(119), Int2R(81)>>),
     Series(<<Int2R(10), Int2R(5), Int2R(-5)>>),
     Series(<<Int2R(-5), Int2R(10), Int2R(12)>>)}

GrowthTables ==
    [operating_margin : {NoColumn},
     net_margin : {NoColumn},
     total_revenue : GrowthRevenuePool,
     net_income : {NoColumn, Series(<<Int2R(4), Int2R(6), Int2R(9)>>)},
     free_cash_flow : GrowthFreeCashFlowPool,
     debt_to_equity : {NoColumn},
     debt_to_assets : {NoColumn},
     current_ratio : {NoColumn},
     quick_ratio : {NoColumn}]

InitGrowth ==
    /\ done = {}
    /\ df \in GrowthTables
    /\ quality = NoResult
    /\ valuation = NoResult
    /\ market = NoResult
    /\ rating = NoResult
    /\ call = NoResult
    /\ metric = NoResult
    /\ result = NoResult
    /\ report = NoResult

SpecGrowth == InitGrowth /\ [][NextQuality]_vars

----------------------------------------------------------------------------
(* Claims about the growth quality *)

\* the last three non-missing values of a column, if it has them
LastThree(col) == tail(dropna(col.cells), 3)

\* end / start over the two periods of the last three non-missing values, NaN
\* without three values or with an end or a start that is not positive
TwoPeriodRatio(col) ==
    IF ~HasThree(col) THEN NaN
    ELSE LET start == LastThree(col)[1]
             end == LastThree(col)[3]
         IN  IF Lt(Int2R(0), start) /\ Lt(Int2R(0), end) THEN Div(end, start)
             ELSE NaN

\* growth above 5% a period, and below 2% a period, over two periods
Above5(ratio) == Gt(ratio, R(11025, 10000))
Below2(ratio) == Lt(ratio, R(10404, 10000))

\* revenue grew by more than 5% a period and free cash flow by less than 2%
GrowthNotConverting ==
    /\ Above5(TwoPeriodRatio(df.total_revenue))
    /\ Below2(TwoPeriodRatio(df.free_cash_flow))

\* C23: the penalty sub-score 20 is in the growth-quality average whenever the
\* 2-period revenue growth is above 5% and the free-cash-flow growth over two
\* periods is below 2%, and it is not otherwise: the score is then the mean of
\* the growth sub-scores alone.
C23_PenaltyRule ==
    QualityDone =>
        LET g == quality.growth
        IN  /\ g.penalty <=> GrowthNotConverting
            /\ quality.growth_quality_score = _mean_ignore_nan(g.scores)
            /\ IF GrowthNotConverting
               THEN /\ Len(g.scores) = 3
                    /\ g.scores[3] = Int2R(20)
                    /\ quality.growth_quality_score =
                           Div(Add(Add(g.scores[1], g.scores[2]), Int2R(20)),
                               Int2R(3))
               ELSE /\ Len(g.scores) <= 2
                    /\ \A i \in DOMAIN g.scores :
                          g.scores[i] \in
                              {_score_range(g.revenue_growth, Int2R(0), R(15, 100)),
                               _score_range(g.fcf_growth, Int2R(0), R(15, 100)),
                               _score_range(g.net_income_growth, Int2R(0),
                                            R(15, 100))}

\* revenue growing by 6% a period with free cash flow growing by 1%: the score
\* is the mean of 40, 20/3 and 20
C23_Witness ==
    /\ QualityDone
    /\ df.total_revenue = Series(<<R(10000, 100), R(10600, 100), R(11236, 100)>>)
    /\ df.free_cash_flow = Series(<<Int2R(100), R(9799, 100), R(10201, 100)>>)
    /\ quality.growth.penalty
    /\ quality.growth_quality_score = R(200, 9)

----------------------------------------------------------------------------
(* Claims about the base case of the valuation *)

\* debt_to_assets gives no rate: r is the fallback of 10%
DefaultRate ==
    \/ ~df.debt_to_assets.present
    \/ ~_is_valid(iloc_back(df.debt_to_assets.cells, 1))

\* the enterprise values of the base case
BaseDCF == dcf_value(df, None, None, R(2, 100))
BaseBuffett == buffett_value(df, None, None)

\* C24: with r at its default of 10%, a normalized free cash flow and a growth
\* rate g, the base-case DCF and owner-earnings values are always defined,
\* g being clipped into [2%, 10%] and so below r.
C24_DefinedAtDefaultRate ==
    (/\ ValuationReturned
     /\ DefaultRate
     /\ IsNum(normalized_fcf(df))
     /\ IsNum(growth_rate(df)))
        => /\ IsNum(BaseDCF)
           /\ IsNum(BaseBuffett)

\* the same for a growth rate below 10%; at the upper end of the clip, g = 10%,
\* both values are undefined
C24_DefinedBelowDefaultRate ==
    (/\ ValuationReturned
     /\ DefaultRate
     /\ IsNum(normalized_fcf(df))
     /\ IsNum(growth_rate(df)))
        => /\ discount_rate(df) = R(10, 100)
           /\ Le(R(2, 100), growth_rate(df))
           /\ Le(growth_rate(df), R(10, 100))
           /\ IF Lt(growth_rate(df), R(10, 100))
              THEN IsNum(BaseDCF) /\ IsNum(BaseBuffett)
              ELSE BaseDCF = NaN /\ BaseBuffett = NaN

\* the three per-share model values analyze returns
ReturnedModelValues ==
    <<valuation.dcf_value, valuation.buffett_value, valuation.multiples_value>>

PresentReturnedValues == SelectSeq(ReturnedModelValues, IsNum)

\* C25: where analyze returns, dcf_value and buffett_value are the base-case
\* per-share values aggregated into fair_value; fair_value is present exactly
\* when one or more of the three returned values is; and valuation_confidence
\* is the number of present returned values divided by 3.
C25_ReturnedAreAggregated ==
    ValuationReturned =>
        /\ valuation.dcf_value = BaseCase[1]
        /\ valuation.buffett_value = BaseCase[2]
        /\ IsNum(valuation.fair_value) <=> PresentReturnedValues # <<>>
        /\ valuation.valuation_confidence =
               R(Len(PresentReturnedValues), Models)

\* what holds instead: the returned multiples value is the base case's, while
\* dcf_value and buffett_value are those of the bear scenario, the last pass of
\* the scenario loop
BearCase ==
    LET p == _scenario_params(df).bear
    IN  model_values(df, p.g, p.r, p.terminal_g, p.pe)

C25_ReturnedAreBear ==
    ValuationReturned =>
        /\ valuation.dcf_value = BearCase[1]
        /\ valuation.buffett_value = BearCase[2]
        /\ valuation.multiples_value = BaseCase[3]
        /\ IsNum(valuation.fair_value) <=> PresentBaseCase # <<>>

\* p differs from q by at most two percentage points
WithinTwoPoints(p, q) == Le(Sub(p, q), R(2, 100)) /\ Le(Sub(q, p), R(2, 100))

\* C26: for every feature table with a growth rate, in each scenario g stays
\* within [2%, 10%] and r within [7%, 12%], and neither differs from its
\* base-case value by more than two percentage points.
C26_ScenarioBounds ==
    (ValuationReturned /\ IsNum(growth_rate(df))) =>
        \A n \in {"base", "bull", "bear"} :
            LET p == valuation.scenarios[n].assumptions
                base == valuation.scenarios.base.assumptions
            IN  /\ Le(R(2, 100), p.g) /\ Le(p.g, R(10, 100))
                /\ Le(R(7, 100), p.r) /\ Le(p.r, R(12, 100))
                /\ WithinTwoPoints(p.g, base.g)
                /\ WithinTwoPoints(p.r, base.r)

\* the bounds the scenarios do keep: g within [0%, 12%], r within [7%, 13%],
\* each within two points of the base case
C26_ScenarioBoundsWide ==
    (ValuationReturned /\ IsNum(growth_rate(df))) =>
        \A n \in {"base", "bull", "bear"} :
            LET p == valuation.scenarios[n].assumptions
                base == valuation.scenarios.base.assumptions
            IN  /\ Le(Int2R(0), p.g) /\ Le(p.g, R(12, 100))
                /\ Le(R(7, 100), p.r) /\ Le(p.r, R(13, 100))
                /\ WithinTwoPoints(p.g, base.g)
                /\ WithinTwoPoints(p.r, base.r)
                /\ n = "base" => /\ Le(R(2, 100), p.g) /\ Le(p.g, R(10, 100))
                                 /\ Le(p.r, R(12, 100))

----------------------------------------------------------------------------
(* The tables the profitability is computed of: seven fiscal periods *)

\* the operating margin of seven periods: every value, 3 of the last 5, 2 or 1
\* of the last 5 after 2 or 3 older values, and 2 values in all
LongOperatingMarginPool ==
    {NoColumn,
     Column(<<Pct(10), Pct(12), Pct(15), Pct(20), Pct(10), Pct(12), Pct(15)>>),
     Column(<<NaN, NaN, Pct(10), Pct(12), Pct(15), NaN, NaN>>),
     Column(<<Pct(10), Pct(12), NaN, NaN, NaN, Pct(15), Pct(20)>>),
     Column(<<Pct(10), Pct(12), Pct(15), NaN, NaN, NaN, Pct(20)>>),
     Column(<<NaN, NaN, NaN, NaN, Pct(10), NaN, Pct(12)>>)}

\* the net margin of seven periods: 4 of the last 5, 2 of the last 5 after 1 or
\* 2 older values, and no value
LongNetMarginPool ==
    {NoColumn,
     Column(<<NaN, NaN, Pct(8), Pct(10), NaN, Pct(12), Pct(9)>>),
     Column(<<NaN, Pct(8), NaN, NaN, Pct(10), NaN, Pct(12)>>),
     Column(<<Pct(8), Pct(10), NaN, NaN, NaN, Pct(12), Pct(9)>>),
     Column(<<NaN, NaN, NaN, NaN, NaN, NaN, NaN>>)}

ProfitabilityTables ==
    [operating_margin : LongOperatingMarginPool,
     net_margin : LongNetMarginPool,
     total_revenue : {NoColumn},
     net_income : {NoColumn},
     free_cash_flow : {NoColumn},
     debt_to_equity : {NoColumn},
     debt_to_assets : {NoColumn},
     current_ratio : {NoColumn,
                      Column(<<NaN, NaN, NaN, NaN, NaN, NaN, Int2R(2)>>)},
     quick_ratio : {NoColumn,
                    Column(<<NaN, NaN, NaN, NaN, NaN, Int2R(1), NaN>>)}]

InitProfitability ==
    /\ done = {}
    /\ df \in ProfitabilityTables
    /\ quality = NoResult
    /\ valuation = NoResult
    /\ market = NoResult
    /\ rating = NoResult
    /\ call = NoResult
    /\ metric = NoResult
    /\ result = NoResult
    /\ report = NoResult

SpecProfitability == InitProfitability /\ [][NextQuality]_vars

----------------------------------------------------------------------------
(* Claims about the profitability *)

\* at least 3 of the 5 most recent periods of the column have a value
ThreeOfLastFive(col) == col.present /\ Len(dropna(tail(col.cells, 5))) >= 3

\* the margins the profitability has a sub-score of
ScoredMargins ==
    {m \in {"operating_margin", "net_margin"} :
        IF m = "operating_margin"
        THEN quality.profitability.operating_margin_avg # None
        ELSE quality.profitability.net_margin_avg # None}

\* C27: a margin is scored only if at least 3 of the 5 most recent periods have
\* a value for it; with fewer inside that window it contributes no sub-score,
\* however many older values there are.
C27_ThreeOfLastFive ==
    QualityDone =>
        /\ \A m \in ScoredMargins : ThreeOfLastFive(df[m])
        /\ Len(quality.profitability.scores) = Cardinality(ScoredMargins)

\* what holds instead: a margin is scored exactly when the column has 3 values
\* or more in all its periods, the average being of its last 5 values
C27_ThreeOfAll ==
    QualityDone =>
        /\ \A m \in {"operating_margin", "net_margin"} :
              m \in ScoredMargins <=> HasThree(df[m])
        /\ Len(quality.profitability.scores) = Cardinality(ScoredMargins)
        /\ ~IsNum(quality.profitability_score) <=> ScoredMargins = {}

----------------------------------------------------------------------------
(* Claims about the financial strength *)

\* the non-missing values of a column, none for a column the table lacks
Values(col) == IF col.present THEN dropna(col.cells) ELSE <<>>

\* the score of the latest value of debt_to_equity, and of debt_to_assets
DebtToEquityScore ==
    _score_range(Sub(Int2R(0), iloc_back(Values(df.debt_to_equity), 1)),
                 R(-25, 10), Int2R(0))

DebtToAssetsScore ==
    _score_range(Sub(Int2R(0), iloc_back(Values(df.debt_to_assets), 1)),
                 Int2R(-1), Int2R(0))

\* the liquidity ratios that have a value
LiquidityValues ==
    {c \in {"current_ratio", "quick_ratio"} : Values(df[c]) # <<>>}

\* C28: debt_to_assets contributes a sub-score only if debt_to_equity has no
\* non-missing value at all; with one or more, exactly the latest non-missing
\* debt_to_equity is scored and debt_to_assets is ignored, so that at most one
\* leverage sub-score enters the average of the dimension.
C28_OneLeverageSignal ==
    QualityDone =>
        LET f == quality.financial_strength
        IN  /\ Len(f.leverage) <= 1
            /\ f.leverage =
                  IF Values(df.debt_to_equity) # <<>> THEN <<DebtToEquityScore>>
                  ELSE IF Values(df.debt_to_assets) # <<>>
                  THEN <<DebtToAssetsScore>>
                  ELSE <<>>
            /\ Len(f.scores) = Len(f.leverage) + Cardinality(LiquidityValues)
            /\ SubSeq(f.scores, 1, Len(f.leverage)) = f.leverage
            /\ quality.financial_strength_score = _mean_ignore_nan(f.scores)

\* debt_to_equity of 0.5 a period ago and missing now, debt_to_assets of 0.3:
\* the leverage sub-score is the 80 of debt_to_equity, not the 70 of
\* debt_to_assets
C28_Witness ==
    /\ QualityDone
    /\ df.debt_to_equity = Series(<<R(1, 2), NaN>>)
    /\ df.debt_to_assets = Series(<<R(3, 10)>>)
    /\ quality.financial_strength.leverage = <<Int2R(80)>>
    /\ DebtToAssetsScore = Int2R(70)

\* no value of debt_to_equity: the leverage sub-score is that of debt_to_assets
C28_WitnessFallback ==
    /\ QualityDone
    /\ df.debt_to_equity = Series(<<>>)
    /\ quality.financial_strength.leverage = <<Int2R(70)>>

----------------------------------------------------------------------------
(* The dicts of a rating near the thresholds *)

\* quality scores next to 55 and 75, and on them
ThresholdScores ==
    {R(5494, 100), R(5497, 100), Int2R(55), R(5504, 100),
     R(7494, 100), R(7496, 100), Int2R(75), R(7504, 100)}

InitRatingThresholds ==
    /\ done = {"quality", "valuation", "market"}
    /\ df = NoTable
    /\ quality \in [quality_score : ThresholdScores,
                    quality_confidence : {None, R(1, 2), Int2R(1)}]
    /\ valuation \in [fair_value : {None, Int2R(2), Int2R(4)},
                      valuation_confidence : {None, Int2R(1)}]
    /\ market \in [market_price : {None, Int2R(2)},
                   volatility : {None, Int2R(0)},
                   max_drawdown : {None}]
    /\ rating = NoResult
    /\ call = NoResult
    /\ metric = NoResult
    /\ result = NoResult
    /\ report = NoResult

SpecRatingThresholds == InitRatingThresholds /\ [][NextRating]_vars

----------------------------------------------------------------------------
(* Claims about the rating and the total score returned with it *)

\* C29: in every result the rating agrees with the total_score returned, the
\* total rounded to one decimal: BUY exactly for total_score >= 75, HOLD
\* exactly for 55 <= total_score < 75, SELL exactly for total_score < 55.
C29_RatingOfReportedScore ==
    RatingDone =>
        /\ rating.rating = "BUY" <=> Ge(rating.total_score, Int2R(75))
        /\ rating.rating = "HOLD" <=>
               /\ Ge(rating.total_score, Int2R(55))
               /\ Lt(rating.total_score, Int2R(75))
        /\ rating.rating = "SELL" <=> Lt(rating.total_score, Int2R(55))

\* what holds instead: the rating is that of the total before the rounding, and
\* the total_score returned differs from that total by at most 0.05
C29_RatingOfTotal ==
    RatingDone =>
        /\ rating.rating = final_rating(rating.total)
        /\ rating.total_score = round(rating.total, 1)
        /\ Le(RAbs(Sub(rating.total_score, rating.total)), R(5, 100))
        /\ IsNum(rating.total) =>
              /\ rating.rating = "BUY" <=> Ge(rating.total, Int2R(75))
              /\ rating.rating = "HOLD" <=>
                     /\ Ge(rating.total, Int2R(55))
                     /\ Lt(rating.total, Int2R(75))
              /\ rating.rating = "SELL" <=> Lt(rating.total, Int2R(55))

\* the growth-quality score of the growth sub-scores alone, the penalty left out
ScoreWithoutPenalty ==
    _mean_ignore_nan(SubSeq(quality.growth.scores, 1, 2))

\* C30: the penalty never raises the score: for every table for which the
\* penalty sub-score of 20 is injected, the growth-quality score is less than
\* or equal to the score of the revenue-growth and free-cash-flow-growth
\* sub-scores alone.
C30_PenaltyNeverRaises ==
    (QualityDone /\ quality.growth.penalty) =>
        Le(quality.growth_quality_score, ScoreWithoutPenalty)

\* what holds instead: the penalty lowers the score where the two sub-scores
\* average more than 20, and raises it where they average less
C30_PenaltyPullsTowardsTwenty ==
    (QualityDone /\ quality.growth.penalty) =>
        /\ Len(quality.growth.scores) = 3
        /\ IsNum(ScoreWithoutPenalty)
        /\ Gt(ScoreWithoutPenalty, Int2R(20)) =>
              /\ Lt(quality.growth_quality_score, ScoreWithoutPenalty)
              /\ Gt(quality.growth_quality_score, Int2R(20))
        /\ Lt(ScoreWithoutPenalty, Int2R(20)) =>
              /\ Gt(quality.growth_quality_score, ScoreWithoutPenalty)
              /\ Lt(quality.growth_quality_score, Int2R(20))
        /\ ScoreWithoutPenalty = Int2R(20) =>
              quality.growth_quality_score = Int2R(20)

====
